---- MODULE Spec2Model ----
(***************************************************************************)
(* A model of the semantic-analysis core of moshell: the symbol collector  *)
(* (analyzer/src/steps/collect.rs), the relations table                    *)
(* (analyzer/src/relations.rs), the symbol resolver and the passes that    *)
(* follow it.  SourceId, LocalId and RelationId are 0-based as in the      *)
(* code; the sequence that stores them is 1-based, so id i is element i+1. *)
(***************************************************************************)
EXTENDS Integers, Sequences, FiniteSets, TLC

VARIABLES
    phase,        \* position of the driver: "idle", "walk", "collected", "resolved",
                  \* "typed", or where it stopped: "panicked" (the collector),
                  \* "rejected" (inject's assertion), "typing_panicked"
    engine,       \* Engine: the environments, indexed by SourceId
    relations,    \* Relations.objects: the tracked relations, indexed by RelationId
    imports,      \* Imports: per module, the insertion-ordered unresolved imports
    uses,         \* history: the imports add_checked_import was called with, in order
    diagnostics,  \* the diagnostics emitted so far
    to_visit,     \* the worklist of module names to import (a Vec used as a stack)
    visited,      \* the names already handed to the importer
    queries,      \* history: the names the importer was asked for and its answers
    stack,        \* SymbolCollector.stack: the environments being collected
    states,       \* the ResolutionState of every tree_walk frame on the call stack
    open,         \* the constructs tree_walk is inside of ("Block", "Function")
    steps,        \* the expressions tree_walk has been called on so far
    last,         \* the last step of tree_walk: its kind and its segment
    chunks,       \* the typed chunks apply_types has produced, by SourceId
    link_engine,  \* the engine handed to the compiler, indexed by SourceId
    link_relations, \* the relations handed to the compiler, indexed by RelationId
    captures,     \* Captures: per SourceId the captured symbols, None before
    bytecode,     \* Bytecode.bytes: the bytes emitted so far
    ip_offset,    \* Instructions.ip_offset of the chunk being compiled
    header,       \* compile_chunk_code: its placeholders, NoId outside of a chunk
    frames,       \* the calls of emit_loop and emit_conditional on the call stack
    estates,      \* the EmissionState objects alive: the chunk's, then one per loop
    jumps,        \* history: the jump operands emitted, with the loop around them
    patches,      \* history: the calls of patch_u32_placeholder
    loops,        \* history: the calls of emit_loop
    conditionals, \* history: the calls of emit_conditional
    emitted,      \* the expressions emit has been called on so far
    constants,    \* ConstantPool.constants: the constants in insertion order
    returned,     \* history: the last constant inserted and the index returned
    inserts,      \* the insertions into the constant pool so far
    stage,        \* position of the pipeline of the command line or of the REPL
    errors,       \* the import and parse errors of the run of the pipeline
    diagnosed,        \* the number of diagnostics of the run of the pipeline
    config,       \* Cli: the flags of the command line
    status,       \* the PipelineStatus use_pipeline returns, "None" before
    ran,          \* history: the compiler and the VM calls of the run, in order
    runs,         \* the runs of the pipeline so far
    program,      \* the source of the loops typed, as its tokens in source order
    ascribed,     \* the chunks apply_types_to_source has typed, in order
    reported,     \* the diagnostics of the ascription, in order
    hir,          \* history: the typed `break` and `continue` expressions
    ctx,          \* TypeContext: the typed locals of the source, by LocalId
    assigns,      \* history: the calls of ascribe_assign and what they returned
    declared,     \* history: the calls of ascribe_var_declaration
    chunk,        \* the typed chunk whose header is compiled: its parameter
                  \* types, its return type, the number of its captures
    layout,       \* the stack sizes and the byte counts of the header, or NoLayout
    func,         \* the function declaration given to infer_return and its typed body
    returns,      \* Exploration.returns: the returns recorded in the body
    inferred,     \* what infer_return emitted and returned, or NotInferred
    declarations, \* the function declarations of the module typed, by name
    type_engine,  \* Exploration.type_engine: the chunk of each environment
    to_type,      \* the environments apply_types has still to type, in order
    typed_calls,  \* history: the calls typed, with their caller, callee and type
    again,        \* the diagnostics of the collection run again, NotRun before
    capture_lists, \* history: the capture lists of the chunks, one vector per run
    positions,    \* the (pos, instruction) pairs of the chunk, in emission order
    line_provider, \* SourceLineProvider: the line of each byte position
    attribute,    \* the words written after MAPPINGS_ATTRIBUTE, NotWritten before
    modules       \* the importer: for each name its answer, the `use`s of the module if it has one

\* the state of the analyzer
avars == <<phase, engine, relations, imports, uses, diagnostics, to_visit,
           visited, queries, stack, states, open, steps, last, chunks>>

\* the state of the capture resolution
kvars == <<link_engine, link_relations, captures>>

\* the state of the emitter
evars == <<bytecode, ip_offset, header, frames, estates, jumps, patches, loops,
           conditionals, emitted>>

\* the state of the constant pool
pvars == <<constants, returned, inserts>>

\* the state of the pipeline
svars == <<stage, errors, diagnosed, config, status, ran, runs>>

\* the state of the ascription of the loops
tvars == <<program, ascribed, reported, hir, ctx, assigns, declared>>

\* the state of the layout of a chunk
lvars == <<chunk, layout>>

\* the state of the inference of a return type
rvars == <<func, returns, inferred>>

\* the state of apply_types over the chunks of a module
fvars == <<declarations, type_engine, to_type, typed_calls>>

\* the results of the passes run again on the same input
dvars == <<again, capture_lists>>

\* the state of compile_line_mapping_attribute
mvars == <<positions, line_provider, attribute>>

\* the modules the importer can give
wvars == <<modules>>

\* every variable but those of the analyzer
cvars == <<kvars, evars, pvars, svars, tvars, lvars, rvars, fvars, dvars, mvars, wvars>>

\* every variable but those of the capture resolution, of the emitter, of
\* the constant pool, of the pipeline, of the ascription, of the layout
but_kvars == <<avars, evars, pvars, svars, tvars, lvars, rvars, fvars, dvars, mvars, wvars>>
but_evars == <<avars, kvars, pvars, svars, tvars, lvars, rvars, fvars, dvars, mvars, wvars>>
but_pvars == <<avars, kvars, evars, svars, tvars, lvars, rvars, fvars, dvars, mvars, wvars>>
but_svars == <<avars, kvars, evars, pvars, tvars, lvars, rvars, fvars, dvars, mvars, wvars>>
but_tvars == <<avars, kvars, evars, pvars, svars, lvars, rvars, fvars, dvars, mvars, wvars>>
but_lvars == <<avars, kvars, evars, pvars, svars, tvars, rvars, fvars, dvars, mvars, wvars>>
but_rvars == <<avars, kvars, evars, pvars, svars, tvars, lvars, fvars, dvars, mvars, wvars>>
but_fvars == <<avars, kvars, evars, pvars, svars, tvars, lvars, rvars, dvars, mvars, wvars>>
but_dvars == <<avars, kvars, evars, pvars, svars, tvars, lvars, rvars, fvars, mvars, wvars>>
but_mvars == <<avars, kvars, evars, pvars, svars, tvars, lvars, rvars, fvars, dvars, wvars>>
but_wvars == <<avars, kvars, evars, pvars, svars, tvars, lvars, rvars, fvars, dvars, mvars>>

vars == <<avars, cvars>>

-----------------------------------------------------------------------------
(* Bounds of the model *)

\* the number of AST nodes one run traverses
MaxSteps == 4

\* the number of environments of an engine handed to the compiler
MaxChunks == 4

\* the number of expressions handed to emit
MaxEmit == 4

\* the number of insertions into the constant pool
MaxInserts == 4

\* the number of runs of the pipeline
MaxRuns == 2

\* the number of tokens of a typed program
MaxTokens == 5

\* the number of parameters of a compiled chunk
MaxParams == 2

\* the number of assignments of a typed source
MaxAssigns == 2

\* the number of variable declarations of a typed source
MaxLocals == 2

\* the number of operations applied one on the other
MaxOps == 3

\* the number of `return` expressions of a function body
MaxReturns == 2

-----------------------------------------------------------------------------
(* Values *)

\* Option::None for an id
NoId == -1

\* the segment of the k-th AST node the current handler meets: the segments of
\* distinct nodes differ
Seg(k) == <<steps, k>>

\* Option::None for a segment
NoSeg == <<>>

\* the `reef` marker of an inclusion path
ReefItem == "reef"

Unresolved == [tag |-> "Unresolved", source |-> NoId, object |-> NoId]

Dead == [tag |-> "Dead", source |-> NoId, object |-> NoId]

Resolved(source, object) == [tag |-> "Resolved", source |-> source, object |-> object]

Local(id) == [kind |-> "Local", id |-> id]

External(id) == [kind |-> "External", id |-> id]

Last(s) == s[Len(s)]

Front(s) == SubSeq(s, 1, Len(s) - 1)

\* the environment with the given SourceId
Env(eng, id) == eng[id + 1]

SetEnv(eng, id, env) == [eng EXCEPT ![id + 1] = env]

-----------------------------------------------------------------------------
(* Names and symbol locations *)

\* SymbolLocation::unspecified
Unspecified(name) == [name |-> name, explicit |-> FALSE]

\* Name::is_qualified
IsQualified(name) == Len(name) > 1

\* Name::root
Root(name) == name[1]

\* SymbolLocation::compute: a leading reef marker makes the reef explicit, a
\* reef marker anywhere else is an invalid path item.
PathIsValid(path) ==
    /\ Len(path) > 0
    /\ \A i \in 2..Len(path) : path[i] # ReefItem
    /\ (path[1] = ReefItem => Len(path) > 1)

Compute(path) ==
    IF path[1] = ReefItem
    THEN [name |-> Tail(path), explicit |-> TRUE]
    ELSE [name |-> path, explicit |-> FALSE]

-----------------------------------------------------------------------------
(* Environments and their symbol table *)

\* Environment::script
Script(fqn) ==
    [fqn |-> fqn, parent |-> NoId, locals |-> <<>>, depth |-> 0,
     externals |-> {}, definitions |-> <<>>, attached |-> FALSE]

\* Environment::fork
Fork(env, source_id, name) ==
    [fqn |-> Append(env.fqn, name), parent |-> source_id, locals |-> <<>>,
     depth |-> 0, externals |-> {}, definitions |-> <<>>, attached |-> FALSE]

\* Engine::track: a new SourceId, the previous length of the engine; its
\* environment is attached afterwards
Track(eng) == Append(eng, Script(<<>>))

\* Engine::attach
Attach(eng, id, env) == SetEnv(eng, id, [env EXCEPT !.attached = TRUE])

\* Environment::begin_scope
BeginScope(env) == [env EXCEPT !.depth = @ + 1]

\* a variant of end_scope that leaves the depth of the environment alone
EndScopeAtDepth(env) ==
    [env EXCEPT
        !.locals = [i \in 1..Len(@) |->
                        IF @[i].depth = env.depth THEN [@[i] EXCEPT !.alive = FALSE]
                        ELSE @[i]]]

\* Environment::end_scope: the locals of the closed scope become unreachable
EndScope(env) ==
    [env EXCEPT
        !.locals = [i \in 1..Len(@) |->
                        IF @[i].depth = env.depth THEN [@[i] EXCEPT !.alive = FALSE]
                        ELSE @[i]],
        !.depth = @ - 1]

\* Symbols::declare_local; the new LocalId is the previous number of locals
DeclareLocal(env, name, ty) ==
    [env EXCEPT !.locals = Append(@, [name |-> name, ty |-> ty, depth |-> env.depth,
                                      alive |-> TRUE])]

\* whether a symbol of the given kind lives in the given registry
InRegistry(ty, registry) ==
    IF registry = "Objects" THEN ty \in {"Variable", "Function"} ELSE ty = "Type"

\* Symbols::find_reachable: the LocalId of the latest reachable declaration
\* of the name in the registry, NoId when there is none
FindReachable(env, name, registry) ==
    LET hits == {i \in 1..Len(env.locals) :
                    /\ env.locals[i].name = name
                    /\ env.locals[i].alive
                    /\ InRegistry(env.locals[i].ty, registry)}
    IN IF hits = {} THEN NoId
       ELSE (CHOOSE i \in hits : \A j \in hits : j <= i) - 1

\* Symbols::external: the relation the location is bound to, NoId when none
ExternalOf(env, loc) ==
    IF \E e \in env.externals : e.loc = loc
    THEN (CHOOSE e \in env.externals : e.loc = loc).id
    ELSE NoId

\* Environment::annotate: binds the AST node at the segment to the symbol
\* (`node` is the kind of the annotated AST node, `loc` the location it names)
Annotate(env, seg, node, loc, sym) ==
    [env EXCEPT !.definitions =
        Append(@, [seg |-> seg, node |-> node, loc |-> loc, sym |-> sym])]

-----------------------------------------------------------------------------
(* Relations *)

\* Relations::track_new_object: pushes an unresolved object
TrackNewObject(rels, origin, registry) ==
    Append(rels, [origin |-> origin, registry |-> registry, state |-> Unresolved])

\* a variant that leaves the relation of an invalid qualified name to the resolver
LeftUnresolved == Unresolved

\* the state identify_symbol gives the relation of a qualified name
\* whose root is a local symbol
DeadState == Dead

Diag(id, env, seg, aux) == [id |-> id, env |-> env, seg |-> seg, aux |-> aux]

\* diagnose_invalid_symbol
DiagnoseInvalidSymbol(origin, name, seg) == Diag("InvalidSymbol", origin, seg, name)

\* a variant of track_global! that puts the relation it finds back to
\* Unresolved instead of leaving its state alone
TrackGlobalReset(eng, rels, source, origin, loc, registry) ==
    LET env == Env(eng, source)
        known == ExternalOf(env, loc)
    IN IF known # NoId
       THEN [id |-> known, eng |-> eng,
             rels |-> [rels EXCEPT ![known + 1].state = Unresolved]]
       ELSE [id |-> Len(rels),
             eng |-> SetEnv(eng, source,
                        [env EXCEPT !.externals = @ \cup {[loc |-> loc, id |-> Len(rels)]}]),
             rels |-> TrackNewObject(rels, origin, registry)]

\* a variant of track_global! that tracks a new relation at every reference
TrackGlobalAlways(eng, rels, source, origin, loc, registry) ==
    LET env == Env(eng, source)
    IN [id |-> Len(rels),
        eng |-> SetEnv(eng, source,
                    [env EXCEPT !.externals =
                        {e \in @ : e.loc # loc} \cup {[loc |-> loc, id |-> Len(rels)]}]),
        rels |-> TrackNewObject(rels, origin, registry)]

\* track_global!: the relation of the location, tracked on first use
TrackGlobal(eng, rels, source, origin, loc, registry) ==
    LET env == Env(eng, source)
        known == ExternalOf(env, loc)
    IN IF known # NoId
       THEN [id |-> known, eng |-> eng, rels |-> rels]
       ELSE [id |-> Len(rels),
             eng |-> SetEnv(eng, source,
                        [env EXCEPT !.externals = @ \cup {[loc |-> loc, id |-> Len(rels)]}]),
             rels |-> TrackNewObject(rels, origin, registry)]

\* SymbolCollector::identify_symbol
IdentifySymbol(eng, rels, diags, source, origin, loc, seg, registry) ==
    LET env == Env(eng, source)
        found == FindReachable(env, Root(loc.name), registry)
        g == TrackGlobal(eng, rels, source, origin, loc, registry)
    IN IF loc.explicit \/ found = NoId
       THEN [sym |-> External(g.id), eng |-> g.eng, rels |-> g.rels, diags |-> diags]
       ELSE IF IsQualified(loc.name)
       THEN [sym |-> External(g.id), eng |-> g.eng,
             rels |-> [g.rels EXCEPT ![g.id + 1].state = DeadState],
             diags |-> Append(diags, DiagnoseInvalidSymbol(origin, loc.name, seg))]
       ELSE [sym |-> Local(found), eng |-> eng, rels |-> rels, diags |-> diags]

-----------------------------------------------------------------------------
(* Import directives *)

\* the ImportExpr variants; a List holds the imports it groups
SymbolImport(path, alias) == [kind |-> "Symbol", path |-> path, alias |-> alias, items |-> <<>>]

AllInImport(path) == [kind |-> "AllIn", path |-> path, alias |-> "", items |-> <<>>]

EnvironmentImport == [kind |-> "Environment", path |-> <<>>, alias |-> "", items |-> <<>>]

ListImport(root, items) == [kind |-> "List", path |-> root, alias |-> "", items |-> items]

\* UnresolvedImport::Symbol and UnresolvedImport::AllIn, the keys of the table
ImportKey(kind, alias, loc) == [kind |-> kind, alias |-> alias, loc |-> loc]

\* the position of the key in the insertion-ordered table, 0 when absent
KeyIndex(table, key) ==
    IF \E i \in 1..Len(table) : table[i].key = key
    THEN CHOOSE i \in 1..Len(table) : table[i].key = key
    ELSE 0

\* the table of a module; a module without imports has no entry
ImportsOf(imps, mod_id) == IF mod_id \in DOMAIN imps THEN imps[mod_id] ELSE <<>>

\* a variant of the insertion that keeps the segment of a known key
InsertImportOnce(table, key, seg) ==
    IF KeyIndex(table, key) = 0 THEN Append(table, [key |-> key, seg |-> seg]) ELSE table

\* IndexMap::insert as used by add_unresolved_import: a known key keeps its
\* position and takes the new segment, and the previous segment is returned
InsertImport(table, key, seg) ==
    LET i == KeyIndex(table, key)
    IN IF i = 0 THEN Append(table, [key |-> key, seg |-> seg])
       ELSE [table EXCEPT ![i].seg = seg]

\* add_unresolved_import: the table after the insertion and the shadowed segment
AddUnresolvedImport(imps, mod_id, key, seg) ==
    LET table == ImportsOf(imps, mod_id)
        i == KeyIndex(table, key)
    IN [imps |-> [m \in DOMAIN imps \cup {mod_id} |->
                    IF m = mod_id THEN InsertImport(table, key, seg) ELSE imps[m]],
        shadowed |-> IF i = 0 THEN NoSeg ELSE table[i].seg]

\* SymbolCollector::add_checked_import
AddCheckedImport(imps, diags, mod_id, key, seg, fqn) ==
    LET r == AddUnresolvedImport(imps, mod_id, key, seg)
    IN [imps |-> r.imps,
        diags |-> IF r.shadowed # NoSeg
                  THEN Append(diags, Diag("ShadowedImport", mod_id, seg,
                                          [useless |-> r.shadowed, fqn |-> fqn]))
                  ELSE diags]

\* make_invalid_path_diagnostic
InvalidPathDiagnostic(mod_id, seg) == Diag("InvalidSymbolPath", mod_id, seg, <<>>)

\* collect_symbol_import for an import that is not a list
CollectSimpleImport(acc, imp, relative_path, mod_id, seg) ==
    LET path == relative_path \o imp.path
    IN IF imp.kind = "Environment"
       THEN [acc EXCEPT !.diags = Append(@, Diag("UnsupportedFeature", mod_id, seg, <<>>))]
       ELSE IF ~PathIsValid(path)
       THEN [acc EXCEPT !.diags = Append(@, InvalidPathDiagnostic(mod_id, seg))]
       ELSE LET loc == Compute(path)
                key == IF imp.kind = "Symbol"
                       THEN ImportKey("Symbol", imp.alias, loc)
                       ELSE ImportKey("AllIn", "", loc)
                r == AddCheckedImport(acc.imps, acc.diags, mod_id, key, seg, loc.name)
            IN [imps |-> r.imps, diags |-> r.diags,
                to_visit |-> Append(acc.to_visit, loc.name),
                uses |-> Append(acc.uses, [mod |-> mod_id, key |-> key, seg |-> seg])]

RECURSIVE CollectListItems(_, _, _, _, _, _)
\* the loop of collect_symbol_import over the imports of a list
CollectListItems(acc, items, i, relative_path, mod_id, seg) ==
    IF i > Len(items) THEN acc
    ELSE CollectListItems(
            CollectSimpleImport(acc, items[i], relative_path, mod_id, Seg(i)),
            items, i + 1, relative_path, mod_id, seg)

\* SymbolCollector::collect_symbol_import
CollectSymbolImport(acc, imp, mod_id, seg) ==
    IF imp.kind = "List"
    THEN IF PathIsValid(imp.path)
         THEN CollectListItems(acc, imp.items, 1, imp.path, mod_id, seg)
         ELSE [acc EXCEPT !.diags = Append(@, InvalidPathDiagnostic(mod_id, seg))]
    ELSE CollectSimpleImport(acc, imp, <<>>, mod_id, seg)

-----------------------------------------------------------------------------
(* The importer and import_ast *)

ImportResults == {"Success", "NotFound", "Failure"}

RECURSIVE ImportAstThrough(_, _, _, _)
\* a variant of import_ast that goes on to the parent module after a Failure
ImportAstThrough(parts, answers, vis, asked) ==
    IF parts = <<>> \/ parts \in vis
    THEN [found |-> FALSE, name |-> <<>>, visited |-> vis, queries |-> asked]
    ELSE LET seen == vis \cup {parts}
             answer == answers[Len(parts)]
             log == Append(asked, [name |-> parts, result |-> answer])
         IN IF answer = "Success"
            THEN [found |-> TRUE, name |-> parts, visited |-> seen, queries |-> log]
            ELSE ImportAstThrough(Front(parts), answers, seen, log)

RECURSIVE ImportAstAgain(_, _, _, _)
\* a variant of import_ast that asks the importer for the names already
\* visited
ImportAstAgain(parts, answers, vis, asked) ==
    IF parts = <<>>
    THEN [found |-> FALSE, name |-> <<>>, visited |-> vis, queries |-> asked]
    ELSE LET seen == vis \cup {parts}
             answer == answers[Len(parts)]
             log == Append(asked, [name |-> parts, result |-> answer])
         IN IF answer = "Success"
            THEN [found |-> TRUE, name |-> parts, visited |-> seen, queries |-> log]
            ELSE IF answer = "NotFound"
            THEN ImportAstAgain(Front(parts), answers, seen, log)
            ELSE [found |-> FALSE, name |-> <<>>, visited |-> seen, queries |-> log]

RECURSIVE ImportAst(_, _, _, _)
\* import_ast: `answers[n]` is the importer's answer for the prefix of n segments
ImportAst(parts, answers, vis, asked) ==
    IF parts = <<>> \/ parts \in vis
    THEN [found |-> FALSE, name |-> <<>>, visited |-> vis, queries |-> asked]
    ELSE LET seen == vis \cup {parts}
             answer == answers[Len(parts)]
             log == Append(asked, [name |-> parts, result |-> answer])
         IN IF answer = "Success"
            THEN [found |-> TRUE, name |-> parts, visited |-> seen, queries |-> log]
            ELSE IF answer = "NotFound"
            THEN ImportAst(Front(parts), answers, seen, log)
            ELSE [found |-> FALSE, name |-> <<>>, visited |-> seen, queries |-> log]

-----------------------------------------------------------------------------
(* The state of the tree exploration *)

\* ResolutionState::new
NewState(content, module) ==
    [content |-> content, module |-> module, accept_imports |-> TRUE]

\* ResolutionState::fork
ForkState(st, module) ==
    [content |-> st.content, module |-> module, accept_imports |-> FALSE]

\* a variant of tree_walk that leaves the state as it is
TraversedOpen(sts) == sts

\* the last statement of tree_walk: the state stops accepting imports
Traversed(sts) == [sts EXCEPT ![Len(sts)].accept_imports = FALSE]

Walking == phase = "walk" /\ steps < MaxSteps

Cur == Last(stack)

CurState == Last(states)

\* the engine, relations and diagnostics as a handler threads them, with
\* whether the handler has panicked
Work == [eng |-> engine, rels |-> relations, diags |-> diagnostics, panic |-> FALSE]

\* the annotations of (optional) types and initializers in the AST
NoType == [kind |-> "None", path |-> <<>>]

ParametrizedType(path) == [kind |-> "Parametrized", path |-> path]

CallableType == [kind |-> "Callable", path |-> <<>>]

ByNameType == [kind |-> "ByName", path |-> <<>>]

\* SymbolCollector::collect_type
CollectType(w, origin, ty, seg) ==
    IF w.panic \/ ty.kind = "None" THEN w
    ELSE IF ty.kind \in {"Callable", "ByName"} THEN [w EXCEPT !.panic = TRUE]
    ELSE IF ~PathIsValid(ty.path)
    THEN [w EXCEPT !.diags = Append(@, InvalidPathDiagnostic(origin, seg))]
    ELSE LET r == IdentifySymbol(w.eng, w.rels, w.diags, origin, origin,
                                 Compute(ty.path), seg, "Types")
         IN [eng |-> SetEnv(r.eng, origin, Annotate(Env(r.eng, origin), seg, "Type",
                                                  Compute(ty.path), r.sym)),
             rels |-> r.rels, diags |-> r.diags, panic |-> FALSE]

\* identify_symbol followed by annotate, as tree_walk does for a reference
\* met in the current environment
Reference(w, source, origin, loc, seg, node) ==
    LET r == IdentifySymbol(w.eng, w.rels, w.diags, source, origin, loc, seg, "Objects")
    IN [eng |-> SetEnv(r.eng, source, Annotate(Env(r.eng, source), seg, node, loc, r.sym)),
        rels |-> r.rels, diags |-> r.diags, panic |-> w.panic]

\* declare_local followed by annotate
Declare(w, source, name, ty, seg, node) ==
    IF w.panic THEN w
    ELSE LET env == Env(w.eng, source)
         IN [w EXCEPT !.eng = SetEnv(w.eng, source,
                Annotate(DeclareLocal(env, name, ty), seg, node, Unspecified(<<name>>),
                         Local(Len(env.locals))))]

\* what a handler leaves behind: its effects, and the panic when it panicked
Commit(w) ==
    /\ engine' = w.eng
    /\ relations' = w.rels
    /\ diagnostics' = w.diags
    /\ phase' = IF w.panic THEN "panicked" ELSE phase

-----------------------------------------------------------------------------
(* tree_walk, one action per kind of expression *)

\* Expr::Use
WalkUse(imp) ==
    /\ Walking
    /\ steps' = steps + 1
    /\ last' = [kind |-> "Use", seg |-> Seg(0), imp |-> imp]
    /\ IF ~CurState.accept_imports
       THEN /\ diagnostics' = Append(diagnostics,
                                Diag("UseBetweenExprs", CurState.module, Seg(0), <<>>))
            /\ UNCHANGED <<imports, uses, to_visit>>
       ELSE LET r == CollectSymbolImport(
                        [imps |-> imports, diags |-> diagnostics, to_visit |-> to_visit,
                         uses |-> uses],
                        imp, CurState.module, Seg(0))
            IN /\ imports' = r.imps
               /\ diagnostics' = r.diags
               /\ to_visit' = r.to_visit
               /\ uses' = r.uses
    /\ UNCHANGED <<phase, engine, relations, visited, queries, stack, states, open, chunks>>
    /\ UNCHANGED cvars

\* Expr::Literal, Expr::Continue, Expr::Break
WalkLiteral ==
    /\ Walking
    /\ steps' = steps + 1
    /\ last' = [kind |-> "Literal", seg |-> Seg(0)]
    /\ states' = Traversed(states)
    /\ UNCHANGED <<phase, engine, relations, imports, uses, diagnostics, to_visit, visited,
                   queries, stack, open, chunks>>
    /\ UNCHANGED cvars

\* Expr::VarReference (node = "VarReference") and Expr::Assign of a literal
\* (node = "Assign")
WalkVarReference(node, name) ==
    /\ Walking
    /\ steps' = steps + 1
    /\ last' = [kind |-> node, seg |-> Seg(0)]
    /\ Commit(Reference(Work, Cur, CurState.module, Unspecified(<<name>>), Seg(0), node))
    /\ states' = Traversed(states)
    /\ UNCHANGED <<imports, uses, to_visit, visited, queries, stack, open, chunks>>
    /\ UNCHANGED cvars

\* Expr::ProgrammaticCall without arguments
WalkProgrammaticCall(path) ==
    /\ Walking
    /\ steps' = steps + 1
    /\ last' = [kind |-> "ProgrammaticCall", seg |-> Seg(0)]
    /\ IF PathIsValid(path)
       THEN Commit(Reference(Work, Cur, CurState.module, Compute(path), Seg(0),
                             "ProgrammaticCall"))
       ELSE Commit([Work EXCEPT !.diags =
                        Append(@, InvalidPathDiagnostic(CurState.module, Seg(0)))])
    /\ states' = Traversed(states)
    /\ UNCHANGED <<imports, uses, to_visit, visited, queries, stack, open, chunks>>
    /\ UNCHANGED cvars

\* Expr::VarDeclaration; the initializer, when there is one, is a variable
\* reference (init # "") and is traversed first
WalkVarDeclaration(name, ty, init) ==
    /\ Walking
    /\ steps' = steps + 1
    /\ last' = [kind |-> "VarDeclaration", seg |-> Seg(0)]
    /\ LET w1 == IF init = "" THEN Work
                 ELSE Reference(Work, Cur, CurState.module, Unspecified(<<init>>),
                                Seg(1), "VarReference")
           w2 == CollectType(w1, Cur, ty, Seg(2))
       IN Commit(Declare(w2, Cur, name, "Variable", Seg(0), "VarDeclaration"))
    /\ states' = IF ty.kind \in {"Callable", "ByName"} /\ init = ""
                 THEN states ELSE Traversed(states)
    /\ UNCHANGED <<imports, uses, to_visit, visited, queries, stack, open, chunks>>
    /\ UNCHANGED cvars

\* Expr::Casted of a literal
WalkCasted(ty) ==
    /\ Walking
    /\ steps' = steps + 1
    /\ last' = [kind |-> "Casted", seg |-> Seg(0)]
    /\ Commit(CollectType(Work, Cur, ty, Seg(1)))
    /\ states' = IF ty.kind \in {"Callable", "ByName"} THEN states ELSE Traversed(states)
    /\ UNCHANGED <<imports, uses, to_visit, visited, queries, stack, open, chunks>>
    /\ UNCHANGED cvars

\* Expr::Call of the special command `read NAME` (resolve_special_call)
WalkRead(name) ==
    /\ Walking
    /\ steps' = steps + 1
    /\ last' = [kind |-> "Call", seg |-> Seg(0)]
    /\ Commit(Declare(Work, Cur, name, "Variable", Seg(1), "Literal"))
    /\ states' = Traversed(states)
    /\ UNCHANGED <<imports, uses, to_visit, visited, queries, stack, open, chunks>>
    /\ UNCHANGED cvars

\* Expr::Block, on entry
BeginBlock ==
    /\ Walking
    /\ steps' = steps + 1
    /\ last' = [kind |-> "Block", seg |-> Seg(0)]
    /\ engine' = SetEnv(engine, Cur, BeginScope(Env(engine, Cur)))
    /\ open' = Append(open, "Block")
    /\ UNCHANGED <<phase, relations, imports, uses, diagnostics, to_visit, visited, queries,
                   stack, states, chunks>>
    /\ UNCHANGED cvars

\* Expr::Block, once its expressions are traversed
EndBlock ==
    /\ phase = "walk"
    /\ Len(open) > 1
    /\ Last(open) = "Block"
    /\ engine' = SetEnv(engine, Cur, EndScope(Env(engine, Cur)))
    /\ open' = Front(open)
    /\ states' = Traversed(states)
    /\ last' = [kind |-> "EndBlock", seg |-> NoSeg]
    /\ UNCHANGED <<phase, relations, imports, uses, diagnostics, to_visit, visited, queries,
                   stack, steps, chunks>>
    /\ UNCHANGED cvars

\* Expr::Match, on entry of the body of an arm that binds its value to a name
\* (`name @ pattern => body`): the name is declared and is not annotated
BeginMatchArm(name) ==
    /\ Walking
    /\ steps' = steps + 1
    /\ last' = [kind |-> "Match", seg |-> Seg(0)]
    /\ LET env == BeginScope(Env(engine, Cur))
       IN engine' = SetEnv(engine, Cur, DeclareLocal(env, name, "Variable"))
    /\ open' = Append(open, "Block")
    /\ UNCHANGED <<phase, relations, imports, uses, diagnostics, to_visit, visited, queries,
                   stack, states, chunks>>
    /\ UNCHANGED cvars

-----------------------------------------------------------------------------
(* Functions, lambdas and capture resolution *)

\* a function parameter of the AST: none, FunctionParameter::Named or
\* FunctionParameter::Variadic
NoParam == [kind |-> "None", name |-> "", ty |-> NoType]

NamedParam(name, ty) == [kind |-> "Named", name |-> name, ty |-> ty]

VariadicParam == [kind |-> "Variadic", name |-> "@", ty |-> NoType]

RECURSIVE CaptureIn(_, _, _, _, _)
\* the innermost ancestor (position i of the stack, going outwards) that
\* declares the name, as the resolved symbol; Unresolved when there is none
CaptureIn(stk, eng, i, name, registry) ==
    IF i = 0 THEN Unresolved
    ELSE LET local == FindReachable(Env(eng, stk[i]), name, registry)
         IN IF local # NoId THEN Resolved(stk[i], local)
            ELSE CaptureIn(stk, eng, i - 1, name, registry)

\* SymbolResolver::resolve_captures: every unresolved external reference of
\* the innermost environment of the stack whose name is a local of an
\* ancestor is resolved to the innermost such ancestor
ResolveCaptures(stk, eng, rels) ==
    LET current == Env(eng, Last(stk))
        Captured(id) ==
            LET e == CHOOSE x \in current.externals : x.id = id
            IN IF e.loc.explicit \/ IsQualified(e.loc.name) THEN Unresolved
               ELSE CaptureIn(stk, eng, Len(stk) - 1, Root(e.loc.name), rels[id + 1].registry)
    IN [i \in 1..Len(rels) |->
            IF /\ rels[i].state = Unresolved
               /\ \E x \in current.externals : x.id = i - 1
            THEN [rels[i] EXCEPT !.state = Captured(i - 1)]
            ELSE rels[i]]

\* Expr::FunctionDeclaration, up to its body
BeginFunction(name, param, ret) ==
    /\ Walking
    /\ steps' = steps + 1
    /\ last' = [kind |-> "FunctionDeclaration", seg |-> Seg(0)]
    /\ LET func_id == Len(engine)
           w0 == Declare(Work, Cur, name, "Function", Seg(0), "FunctionDeclaration")
           func_env == Fork(Env(w0.eng, Cur), CurState.module, name)
           w1 == [w0 EXCEPT !.eng = Attach(Track(w0.eng), func_id, func_env)]
           w2 == IF param.kind = "Named" THEN CollectType(w1, func_id, param.ty, Seg(2))
                 ELSE w1
           w3 == IF param.kind = "Named"
                 THEN Declare(w2, func_id, param.name, "Variable", Seg(1), "Param")
                 ELSE IF param.kind = "Variadic" /\ ~w2.panic
                 THEN [w2 EXCEPT !.eng = SetEnv(w2.eng, func_id,
                            DeclareLocal(Env(w2.eng, func_id), param.name, "Variable"))]
                 ELSE w2
           w4 == CollectType(w3, func_id, ret, Seg(3))
       IN /\ Commit(w4)
          /\ stack' = Append(stack, func_id)
          /\ states' = IF w4.panic THEN states
                       ELSE Append(states, ForkState(CurState, func_id))
          /\ open' = IF w4.panic THEN open ELSE Append(open, "Function")
    /\ UNCHANGED <<imports, uses, to_visit, visited, queries, chunks>>
    /\ UNCHANGED cvars

\* Expr::LambdaDef, up to its body
BeginLambda(param) ==
    /\ Walking
    /\ steps' = steps + 1
    /\ last' = [kind |-> "LambdaDef", seg |-> Seg(0)]
    /\ LET func_id == Len(engine)
           func_env == Fork(Env(engine, Cur), CurState.module, "lambda@")
           w1 == [Work EXCEPT !.eng = Attach(Track(engine), func_id, func_env)]
           w2 == IF param.kind = "Named"
                 THEN Declare(w1, func_id, param.name, "Variable", Seg(1), "Param")
                 ELSE w1
           w3 == IF param.kind = "Named" THEN CollectType(w2, func_id, param.ty, Seg(2))
                 ELSE w2
       IN /\ Commit(w3)
          /\ stack' = Append(stack, func_id)
          /\ states' = IF w3.panic THEN states
                       ELSE Append(states, ForkState(CurState, func_id))
          /\ open' = IF w3.panic THEN open ELSE Append(open, "Function")
    /\ UNCHANGED <<imports, uses, to_visit, visited, queries, chunks>>
    /\ UNCHANGED cvars

\* Expr::FunctionDeclaration and Expr::LambdaDef, once the body is traversed
EndFunction ==
    /\ phase = "walk"
    /\ Last(open) = "Function"
    /\ relations' = ResolveCaptures(stack, engine, relations)
    /\ stack' = Front(stack)
    /\ states' = Traversed(Front(states))
    /\ open' = Front(open)
    /\ last' = [kind |-> "EndFunction", seg |-> NoSeg]
    /\ UNCHANGED <<phase, engine, imports, uses, diagnostics, to_visit, visited, queries,
                   steps, chunks>>
    /\ UNCHANGED cvars

-----------------------------------------------------------------------------
(* The collector's entry points *)

\* the root environments of the engine, by ascending SourceId
Roots(eng) == {id \in 0..Len(eng) - 1 : Env(eng, id).parent = NoId}

\* the first root environment with the given fully-qualified name
FindModule(eng, fqn) ==
    LET found == {id \in Roots(eng) : Env(eng, id).fqn = fqn}
    IN IF found = {} THEN NoId ELSE CHOOSE id \in found : \A o \in found : id <= o

\* whether the definition at position i of the environment is the first one
\* annotated with its local symbol
FirstDefinition(env, i) ==
    /\ env.definitions[i].sym.kind = "Local"
    /\ \A j \in 1..(i - 1) : env.definitions[j].sym # env.definitions[i].sym

RECURSIVE ClashesOf(_, _, _, _)
\* the loop of check_symbols_identity over the definitions of one root
ClashesOf(eng, env_id, i, diags) ==
    LET env == Env(eng, env_id)
    IN IF i > Len(env.definitions) THEN diags
       ELSE LET def == env.definitions[i]
                var_fqn == Append(env.fqn, env.locals[def.sym.id + 1].name)
                clashed == FirstDefinition(env, i) /\ FindModule(eng, var_fqn) # NoId
            IN ClashesOf(eng, env_id, i + 1,
                    IF clashed
                    THEN Append(diags, Diag("SymbolConflictsWithModule", env_id, def.seg,
                                            var_fqn))
                    ELSE diags)

RECURSIVE CheckSymbolsIdentity(_, _, _)
\* SymbolCollector::check_symbols_identity, from environment `id` on
CheckSymbolsIdentity(eng, id, diags) ==
    IF id >= Len(eng) THEN diags
    ELSE CheckSymbolsIdentity(eng, id + 1,
            IF id \in Roots(eng) THEN ClashesOf(eng, id, 1, diags) ELSE diags)

\* collect_ast_symbols and inject, up to the traversal of the root block
StartWalk(root, name, parent) ==
    LET id == Len(engine)
        env == [Script(name) EXCEPT !.parent = parent]
        attached == Attach(Track(engine), id, env)
    IN /\ engine' = SetEnv(attached, id, BeginScope(Env(attached, id)))
       /\ stack' = <<id>>
       /\ states' = <<NewState(id, id)>>
       /\ open' = <<root>>
       /\ phase' = "walk"

\* one iteration of the loop of SymbolCollector::collect
ImportNext(answers) ==
    /\ phase = "idle"
    /\ to_visit # <<>>
    /\ LET r == ImportAst(Last(to_visit), answers, visited, queries)
       IN /\ visited' = r.visited
          /\ queries' = r.queries
          /\ to_visit' = Front(to_visit)
          /\ IF r.found THEN StartWalk("Module", r.name, NoId)
             ELSE UNCHANGED <<engine, stack, states, open, phase>>
    /\ UNCHANGED <<relations, imports, uses, diagnostics, steps, last, chunks>>
    /\ UNCHANGED cvars

\* a variant of inject without its assertion
InjectAcceptsAll(attached) == TRUE

\* whether inject accepts the environment to attach the injected module to
InjectAccepts(attached) == attached # Len(engine)

\* SymbolCollector::inject, up to the traversal of the root block
Inject(name, attached) ==
    /\ phase \in {"idle", "resolved", "typed"}
    /\ steps < MaxSteps
    /\ IF InjectAccepts(attached) THEN StartWalk("Inject", name, attached)
       ELSE phase' = "rejected" /\ UNCHANGED <<engine, stack, states, open>>
    /\ steps' = steps + 1
    /\ UNCHANGED <<relations, imports, uses, diagnostics, to_visit, visited, queries, last,
                   chunks>>
    /\ UNCHANGED cvars

\* the end of the root block: the end of collect_ast_symbols, or of inject
\* (which then checks the identity of the symbols)
FinishModule ==
    /\ phase = "walk"
    /\ Len(open) = 1
    /\ LET eng == SetEnv(engine, Cur, EndScope(Env(engine, Cur)))
       IN /\ engine' = eng
          /\ diagnostics' = IF open[1] = "Inject"
                            THEN CheckSymbolsIdentity(eng, 0, diagnostics)
                            ELSE diagnostics
    /\ stack' = <<>>
    /\ states' = <<>>
    /\ open' = <<>>
    /\ phase' = "idle"
    /\ UNCHANGED <<relations, imports, uses, to_visit, visited, queries, steps, last, chunks>>
    /\ UNCHANGED cvars

\* the end of collect_symbols: the worklist is empty
FinishCollect ==
    /\ phase = "idle"
    /\ to_visit = <<>>
    /\ diagnostics' = CheckSymbolsIdentity(engine, 0, diagnostics)
    /\ phase' = "collected"
    /\ UNCHANGED <<engine, relations, imports, uses, to_visit, visited, queries, stack, states,
                   open, steps, last, chunks>>
    /\ UNCHANGED cvars

-----------------------------------------------------------------------------
(* The symbol resolver *)

RECURSIVE Ancestry(_, _, _)
\* an environment and its ancestors, innermost first (`fuel` bounds the walk
\* by the number of environments)
Ancestry(eng, id, fuel) ==
    LET parent == Env(eng, id).parent
    IN IF parent = NoId \/ parent >= Len(eng) \/ fuel = 0 THEN <<id>>
       ELSE <<id>> \o Ancestry(eng, parent, fuel - 1)

\* the LocalId of the symbol a module exports under the name (a symbol of
\* the scope of its root block), NoId when it exports none
Exported(env, name, registry) ==
    LET hits == {i \in 1..Len(env.locals) :
                    /\ env.locals[i].name = name
                    /\ env.locals[i].depth = 1
                    /\ InRegistry(env.locals[i].ty, registry)}
    IN IF hits = {} THEN NoId
       ELSE (CHOOSE i \in hits : \A j \in hits : j <= i) - 1

\* the symbol `module::name` designates, Unresolved when there is none
Lookup(eng, module, name, registry) ==
    LET m == FindModule(eng, module)
        local == IF m = NoId THEN NoId ELSE Exported(Env(eng, m), name, registry)
    IN IF local = NoId THEN Unresolved ELSE Resolved(m, local)

\* the name a symbol import binds
BoundName(key) == IF key.alias # "" THEN key.alias ELSE Last(key.loc.name)

\* whether the resolver finds the target of a symbol import
ImportResolves(eng, key) ==
    IF key.kind = "AllIn" THEN FindModule(eng, key.loc.name) # NoId
    ELSE \E registry \in {"Objects", "Types"} :
            Lookup(eng, Front(key.loc.name), Last(key.loc.name), registry) # Unresolved

\* import resolution: the symbol the imports of environment `m` bind the name
\* to, Unresolved when none binds it
ImportedIn(eng, imps, m, name, registry) ==
    LET table == ImportsOf(imps, m)
        Bound(i) ==
            IF table[i].key.kind = "AllIn"
            THEN Lookup(eng, table[i].key.loc.name, name, registry)
            ELSE IF BoundName(table[i].key) = name
            THEN Lookup(eng, Front(table[i].key.loc.name), Last(table[i].key.loc.name),
                        registry)
            ELSE Unresolved
        hits == {i \in 1..Len(table) : Bound(i) # Unresolved}
    IN IF hits = {} THEN Unresolved
       ELSE Bound(CHOOSE i \in hits : \A j \in hits : i <= j)

\* the binding the imports visible from an environment give the name: those
\* of the nearest environment of its ancestry that binds it
Imported(eng, imps, chain, name, registry) ==
    LET hits == {i \in 1..Len(chain) :
                    ImportedIn(eng, imps, chain[i], name, registry) # Unresolved}
    IN IF hits = {} THEN Unresolved
       ELSE ImportedIn(eng, imps, chain[CHOOSE i \in hits : \A j \in hits : i <= j],
                       name, registry)

\* the names bound by the symbol imports of environment `m` that failed
DeadImports(eng, imps, m) ==
    LET table == ImportsOf(imps, m)
    IN {BoundName(table[i].key) : i \in {j \in 1..Len(table) :
            table[j].key.kind = "Symbol" /\ ~ImportResolves(eng, table[j].key)}}

\* reference resolution of one unresolved relation: an imported binding, a
\* symbol of a known module, else the relation is dead
ResolveRelation(eng, imps, id, rel) ==
    LET origin == Env(eng, rel.origin)
        loc == (CHOOSE x \in origin.externals : x.id = id).loc
        chain == Ancestry(eng, rel.origin, Len(eng))
        byImport == IF IsQualified(loc.name) THEN Unresolved
                    ELSE Imported(eng, imps, chain, Root(loc.name), rel.registry)
        byModule == IF IsQualified(loc.name)
                    THEN Lookup(eng, Front(loc.name), Last(loc.name), rel.registry)
                    ELSE Unresolved
    IN IF byImport # Unresolved THEN byImport
       ELSE IF byModule # Unresolved THEN byModule
       ELSE Dead

\* the diagnostic of a relation the resolver marks dead
DeadDiagnostic(eng, imps, id, rel) ==
    LET origin == Env(eng, rel.origin)
        loc == (CHOOSE x \in origin.externals : x.id = id).loc
        chain == Ancestry(eng, rel.origin, Len(eng))
    IN IF \E i \in 1..Len(chain) : Root(loc.name) \in DeadImports(eng, imps, chain[i])
       THEN Diag("InvalidSymbol", rel.origin, NoSeg, loc.name)
       ELSE Diag("UnknownSymbol", rel.origin, NoSeg, loc.name)

\* a variant of the resolver that leaves a relation it cannot resolve for a
\* later cycle instead of marking it dead
ResolvedStateLater(eng, imps, id, rel) ==
    IF rel.state = Unresolved /\ ResolveRelation(eng, imps, id, rel) # Dead
    THEN ResolveRelation(eng, imps, id, rel)
    ELSE rel.state

\* the state the resolver leaves a relation in: it handles the unresolved
\* relations only
ResolvedState(eng, imps, id, rel) ==
    IF rel.state = Unresolved THEN ResolveRelation(eng, imps, id, rel) ELSE rel.state

RECURSIVE ResolveDiagnostics(_, _, _, _, _)
\* the diagnostics of the resolver: the imports that failed, then the
\* relations marked dead, by ascending id
ResolveDiagnostics(eng, imps, rels, id, diags) ==
    IF id >= Len(rels) THEN diags
    ELSE ResolveDiagnostics(eng, imps, rels, id + 1,
            IF rels[id + 1].state = Unresolved
               /\ ResolveRelation(eng, imps, id, rels[id + 1]) = Dead
            THEN Append(diags, DeadDiagnostic(eng, imps, id, rels[id + 1]))
            ELSE diags)

RECURSIVE ImportDiagnostics(_, _, _, _, _)
\* diagnose_unresolved_import for the imports of module `m` from entry `i` on
ImportDiagnostics(eng, imps, m, i, diags) ==
    LET table == ImportsOf(imps, m)
    IN IF i > Len(table) THEN diags
       ELSE ImportDiagnostics(eng, imps, m, i + 1,
                IF ImportResolves(eng, table[i].key) THEN diags
                ELSE Append(diags, Diag("ImportResolution", m, table[i].seg,
                                        table[i].key.loc.name)))

RECURSIVE AllImportDiagnostics(_, _, _, _)
AllImportDiagnostics(eng, imps, m, diags) ==
    IF m >= Len(eng) THEN diags
    ELSE AllImportDiagnostics(eng, imps, m + 1, ImportDiagnostics(eng, imps, m, 1, diags))

\* SymbolResolver: import resolution, then reference resolution, to the
\* fixed point; the imports are taken from the table
Resolve ==
    /\ phase = "collected"
    /\ relations' = [i \in 1..Len(relations) |->
                        [relations[i] EXCEPT
                            !.state = ResolvedState(engine, imports, i - 1, relations[i])]]
    /\ diagnostics' = ResolveDiagnostics(engine, imports, relations, 0,
                            AllImportDiagnostics(engine, imports, 0, diagnostics))
    /\ imports' = << >>
    /\ phase' = "resolved"
    /\ UNCHANGED <<engine, uses, to_visit, visited, queries, stack, states, open, steps,
                   last, chunks>>
    /\ UNCHANGED cvars

-----------------------------------------------------------------------------
(* Type ascription *)

\* RelationState::expect_resolved: a relation that is not resolved has no
\* resolved symbol to give
ExpectResolved(state) == state.tag = "Resolved"

\* whether ascribe_var_reference, ascribe_assign and type_call get through
\* the annotated node: an external symbol must give its resolved symbol
Ascribes(rels, def) ==
    \/ def.node \notin {"VarReference", "Assign", "ProgrammaticCall"}
    \/ def.sym.kind = "Local"
    \/ ExpectResolved(rels[def.sym.id + 1].state)

\* apply_types_to_source: whether the environment gets its chunk
ChunkOf(eng, rels, id) ==
    \A i \in 1..Len(Env(eng, id).definitions) : Ascribes(rels, Env(eng, id).definitions[i])

\* apply_types: a chunk per environment, unless an ascription panics
ApplyTypes ==
    /\ phase = "resolved"
    /\ LET typed == {id \in 0..Len(engine) - 1 : ChunkOf(engine, relations, id)}
       IN IF typed = 0..Len(engine) - 1
          THEN chunks' = typed /\ phase' = "typed"
          ELSE chunks' = {} /\ phase' = "typing_panicked"
    /\ UNCHANGED <<engine, relations, imports, uses, diagnostics, to_visit, visited, queries,
                   stack, states, open, steps, last>>
    /\ UNCHANGED cvars

-----------------------------------------------------------------------------
(* The analysis of a reef: collection, resolution, ascription *)

EntryName == <<"a">>

\* the emitter before a chunk is compiled
EmitterIdle ==
    /\ bytecode = <<>>
    /\ ip_offset = 0
    /\ header = [instruction_count |-> NoId, locals_byte_count |-> NoId, opened |-> NoId]
    /\ frames = <<>>
    /\ estates = <<>>
    /\ jumps = <<>>
    /\ patches = <<>>
    /\ loops = <<>>
    /\ conditionals = <<>>
    /\ emitted = 0

\* ConstantPool::default
PoolIdle ==
    /\ constants = <<>>
    /\ returned = [constant |-> <<>>, index |-> NoId]
    /\ inserts = 0

\* the pipeline before it is run
PipelineIdle ==
    /\ stage = "idle"
    /\ errors = <<>>
    /\ diagnosed = 0
    /\ config = [ast |-> FALSE, disassemble |-> FALSE, no_execute |-> FALSE]
    /\ status = "None"
    /\ ran = <<>>
    /\ runs = 0

\* no chunk header computed
NoLayout == [sizes |-> <<>>, parameters_bytes_count |-> -1, return_bytes_count |-> -1]

\* the layout before a chunk is given to the compiler
LayoutIdle ==
    /\ chunk = [parameters |-> <<>>, return_type |-> "UNIT", captures |-> 0]
    /\ layout = NoLayout

\* the ascription before a program is given to it
AscriptionIdle ==
    /\ program = <<>>
    /\ ascribed = <<>>
    /\ reported = <<>>
    /\ hir = <<>>
    /\ ctx = <<>>
    /\ assigns = <<>>
    /\ declared = <<>>

\* no function declaration
NoFunction == [return_type |-> "None", body |-> "None", last |-> [ty |-> "UNIT", segment |-> 0]]

\* infer_return has not been called
NotInferred == [diags |-> <<>>, ty |-> "None"]

\* no function given to infer_return
ReturnsIdle ==
    /\ func = NoFunction
    /\ returns = <<>>
    /\ inferred = NotInferred

\* no module of functions is being typed
FunctionsIdle ==
    /\ declarations = <<>>
    /\ type_engine = <<>>
    /\ to_type = <<>>
    /\ typed_calls = {}

\* no analysis was run again
RunsIdle ==
    /\ again = <<Diag("NotRun", NoId, NoSeg, <<>>)>>
    /\ capture_lists = <<>>

\* no line-mapping attribute is being written
MappingsIdle ==
    /\ positions = <<>>
    /\ line_provider = <<>>
    /\ attribute = <<-1>>

\* the importer has no fixed set of modules
ModulesIdle ==
    /\ modules = <<>>

\* the compiler, the pipeline and the ascription before they are called
CompilerIdle ==
    /\ link_engine = <<>>
    /\ link_relations = <<>>
    /\ captures = <<>>
    /\ EmitterIdle
    /\ PoolIdle
    /\ PipelineIdle
    /\ ModulesIdle
    /\ MappingsIdle
    /\ RunsIdle
    /\ FunctionsIdle
    /\ ReturnsIdle
    /\ AscriptionIdle
    /\ LayoutIdle

\* the analyzer before the collection of the entry point
AnalyzerInit ==
    /\ phase = "idle"
    /\ engine = <<>>
    /\ relations = <<>>
    /\ imports = << >>
    /\ uses = <<>>
    /\ diagnostics = <<>>
    /\ to_visit = <<EntryName>>
    /\ visited = {}
    /\ queries = <<>>
    /\ stack = <<>>
    /\ states = <<>>
    /\ open = <<>>
    /\ steps = 0
    /\ last = [kind |-> "None", seg |-> NoSeg]
    /\ chunks = {}

Init == AnalyzerInit /\ CompilerIdle

\* the importer's answers for the prefixes of the next name of the worklist
Answers == [1..(IF to_visit = <<>> THEN 0 ELSE Len(Last(to_visit))) -> ImportResults]

\* the references of the modules under analysis
References == {<<"VarReference", "a">>, <<"Assign", "b">>}

Calls == {<<"a", "b">>, <<ReefItem, "a", "b">>}

Next ==
    \/ \E answers \in Answers : ImportNext(answers)
    \/ FinishModule
    \/ FinishCollect
    \/ Resolve
    \/ ApplyTypes
    \/ \E ref \in References : WalkVarReference(ref[1], ref[2])
    \/ \E path \in Calls : WalkProgrammaticCall(path)
    \/ WalkVarDeclaration("a", NoType, "")
    \/ BeginBlock
    \/ EndBlock
    \/ BeginFunction("b", NoParam, NoType)
    \/ EndFunction
    \/ WalkUse(AllInImport(<<"b">>))

Spec == Init /\ [][Next]_vars

-----------------------------------------------------------------------------
(* Properties of the relations *)

\* the annotations of environment `id` that bind a node to a relation
ExternalRefs(eng, id) ==
    {Env(eng, id).definitions[i] : i \in
        {j \in 1..Len(Env(eng, id).definitions) :
            Env(eng, id).definitions[j].sym.kind = "External"}}

RelationStatesAreFinal ==
    [][\A i \in 1..Len(relations) :
            relations[i].state # Unresolved =>
                /\ i <= Len(relations')
                /\ relations'[i].state = relations[i].state]_vars

\* the collector is at work on an engine that holds a relation it marked
\* dead and one that the capture resolution of a function resolved
FinalStatesMet ==
    /\ phase = "walk"
    /\ \E i \in 1..Len(relations) : relations[i].state = Dead
    /\ \E i \in 1..Len(relations) : relations[i].state.tag = "Resolved"

\* C8 (as the specification states it): apply_types gets through every
\* environment, whatever the state of the relations its references are
\* bound to.
AscriptionIsTotal == phase # "typing_panicked"

\* C9: within one environment two references are bound to the same relation
\* exactly when they name the same external symbol, and the environment has
\* created as many relations as it references distinct external names.
OneRelationPerName ==
    \A id \in 0..Len(engine) - 1 :
        /\ \A x, y \in ExternalRefs(engine, id) : (x.loc = y.loc) <=> (x.sym.id = y.sym.id)
        /\ Cardinality({i \in 1..Len(relations) : relations[i].origin = id})
            = Cardinality({x.loc : x \in ExternalRefs(engine, id)})

\* an environment references an external name, another one, then the first
\* one again
NamesMetAgain ==
    \E id \in 0..Len(engine) - 1 : \E x, y, z \in ExternalRefs(engine, id) :
        /\ x.loc = z.loc
        /\ x.loc # y.loc
        /\ x.seg[1] < y.seg[1]
        /\ y.seg[1] < z.seg[1]

\* C10: when tree_walk meets a qualified reference without explicit reef
\* whose root is a reachable local of the current environment, it emits one
\* InvalidSymbol diagnostic for it and binds the reference to a relation
\* that is Dead.
QualifiedLocalIsDead ==
    [][LET before == Env(engine, Cur).definitions
           after == Env(engine', Cur).definitions
           ref == Last(after)
       IN (/\ phase = "walk"
           /\ last'.kind = "ProgrammaticCall"
           /\ steps' = steps + 1
           /\ Len(after) = Len(before) + 1
           /\ IsQualified(ref.loc.name)
           /\ ~ref.loc.explicit
           /\ FindReachable(Env(engine, Cur), Root(ref.loc.name), "Objects") # NoId)
          => /\ ref.sym.kind = "External"
             /\ relations'[ref.sym.id + 1].state = Dead
             /\ Len(diagnostics') = Len(diagnostics) + 1
             /\ Last(diagnostics') = DiagnoseInvalidSymbol(CurState.module, ref.loc.name,
                                                           ref.seg)]_vars

\* tree_walk has just met a qualified reference whose root is a local
QualifiedLocalMet ==
    /\ phase = "walk"
    /\ last.kind = "ProgrammaticCall"
    /\ diagnostics # <<>>
    /\ Last(diagnostics).id = "InvalidSymbol"
    /\ Last(diagnostics).seg = last.seg
    /\ \E x \in ExternalRefs(engine, Cur) :
            /\ x.seg = last.seg
            /\ IsQualified(x.loc.name)
            /\ relations[x.sym.id + 1].state = Dead

-----------------------------------------------------------------------------
(* The import directives of a module and the importer *)

\* the import directives of the modules under analysis
Uses ==
    {SymbolImport(<<"b", "a">>, ""), SymbolImport(<<"b", "a">>, "b"), AllInImport(<<"b">>),
     EnvironmentImport, SymbolImport(<<"b", ReefItem>>, ""),
     ListImport(<<"b">>, <<SymbolImport(<<"b">>, ""), SymbolImport(<<"b">>, "")>>)}

\* the answers of an importer that finds every module
Found == {answers \in Answers : \A n \in DOMAIN answers : answers[n] = "Success"}

\* the collection of modules that start with import directives, every module
\* they name being found
NextUses ==
    \/ \E answers \in Found : ImportNext(answers)
    \/ FinishModule
    \/ \E imp \in Uses : WalkUse(imp)
    \/ WalkLiteral
    \/ BeginLambda(NoParam)
    \/ EndFunction

SpecUses == Init /\ [][NextUses]_vars

\* the collection of modules made of import directives, whatever the
\* importer answers
NextImporter ==
    \/ \E answers \in Answers : ImportNext(answers)
    \/ FinishModule
    \/ WalkUse(SymbolImport(<<"b", "a">>, ""))
    \/ WalkUse(AllInImport(<<"b">>))
    \/ WalkUse(SymbolImport(<<"b", "b">>, ""))

SpecImporter == Init /\ [][NextImporter]_vars

\* tree_walk has just been called on a `use` expression
UseMet == phase = "walk" /\ last'.kind = "Use" /\ steps' = steps + 1

\* the key of an import that is neither a list nor an environment import
KeyOf(imp) ==
    ImportKey(imp.kind, IF imp.kind = "Symbol" THEN imp.alias ELSE "", Compute(imp.path))

\* what collect_symbol_import records for a symbol or all-in import of a
\* valid path: the import under the segment of the directive, and its name in
\* the worklist
Recorded(imp, mod_id, seg) ==
    /\ uses' = Append(uses, [mod |-> mod_id, key |-> KeyOf(imp), seg |-> seg])
    /\ to_visit' = Append(to_visit, Compute(imp.path).name)
    /\ \E i \in 1..Len(ImportsOf(imports', mod_id)) :
            ImportsOf(imports', mod_id)[i] = [key |-> KeyOf(imp), seg |-> seg]

\* the life of accept_imports within the traversal of a module, and the
\* imports it refuses
AcceptImportsRules ==
    \* it starts true
    /\ (phase # "walk" /\ phase' = "walk") => Last(states').accept_imports
    \* it is false once an expression that is not a `use` has been traversed
    /\ (/\ phase = "walk"
        /\ phase' = "walk"
        /\ last' # last
        /\ last'.kind \in {"Literal", "EndFunction"})
            => ~Last(states').accept_imports
    \* it never becomes true again
    /\ (phase = "walk" /\ phase' = "walk" /\ Len(states') = Len(states)
        /\ ~CurState.accept_imports) => ~Last(states').accept_imports
    \* it is false throughout the bodies of functions and lambdas
    /\ (phase' = "walk" /\ Len(states') > 1) => ~Last(states').accept_imports
    \* a `use` met while it is false is reported once and discarded
    /\ (UseMet /\ ~CurState.accept_imports) =>
            /\ diagnostics' = Append(diagnostics,
                    Diag("UseBetweenExprs", CurState.module, last'.seg, <<>>))
            /\ UNCHANGED <<imports, uses, to_visit>>

\* C4 (as the specification states it): accept_imports starts true, is
\* false after the first expression that is not a `use` and never true
\* again, a `use` met while it is false gives one UseBetweenExprs diagnostic
\* and nothing else, and every `use` met while it is true is recorded.
EveryAcceptedUseIsRecorded ==
    [][/\ AcceptImportsRules
       /\ (UseMet /\ CurState.accept_imports) => Len(uses') > Len(uses)]_vars

\* C4 (amended): the same, but a `use` met while accept_imports is true is
\* handed to collect_symbol_import, which records the symbol and all-in
\* imports of a valid path only: an environment import is reported as
\* UnsupportedFeature and an invalid path as InvalidSymbolPath, and neither
\* is recorded nor enqueued.
AcceptedUseIsCollected ==
    [][/\ AcceptImportsRules
       /\ (UseMet /\ CurState.accept_imports) =>
            /\ \A i \in (Len(diagnostics) + 1)..Len(diagnostics') :
                    diagnostics'[i].id # "UseBetweenExprs"
            /\ (last'.imp.kind \in {"Symbol", "AllIn"} /\ PathIsValid(last'.imp.path))
                    => Recorded(last'.imp, CurState.module, last'.seg)
            /\ (last'.imp.kind = "Environment")
                    => /\ diagnostics' = Append(diagnostics,
                            Diag("UnsupportedFeature", CurState.module, last'.seg, <<>>))
                       /\ UNCHANGED <<imports, uses, to_visit>>
            /\ (last'.imp.kind \in {"Symbol", "AllIn"} /\ ~PathIsValid(last'.imp.path))
                    => /\ diagnostics' = Append(diagnostics,
                            InvalidPathDiagnostic(CurState.module, last'.seg))
                       /\ UNCHANGED <<imports, uses, to_visit>>]_vars

\* a module has had an import recorded, then a `use` refused after its first
\* expression, and its traversal goes on
UseRefused ==
    /\ phase = "walk"
    /\ last.kind = "Use"
    /\ uses # <<>>
    /\ ~CurState.accept_imports
    /\ diagnostics # <<>>
    /\ Last(diagnostics).id = "UseBetweenExprs"
    /\ Last(diagnostics).seg = last.seg

\* the occurrences of an import in a module, by their position in the history
Occurrences(mod_id, key) ==
    {i \in 1..Len(uses) : uses[i].mod = mod_id /\ uses[i].key = key}

\* the ShadowedImport diagnostics of a module that report `useless` as
\* shadowed by the directive at `seg`
Shadowings(mod_id, useless, seg) ==
    {i \in 1..Len(diagnostics) :
        /\ diagnostics[i].id = "ShadowedImport"
        /\ diagnostics[i].env = mod_id
        /\ diagnostics[i].seg = seg
        /\ diagnostics[i].aux.useless = useless}

\* C5: the import table of a module has exactly one entry per distinct
\* import, under the segment of its last occurrence, and every repeated
\* occurrence has exactly one ShadowedImport diagnostic, whose useless
\* import is the occurrence recorded before it.
OneEntryPerImport ==
    \A m \in 0..Len(engine) - 1 :
        LET table == ImportsOf(imports, m)
            keys == {uses[i].key : i \in {j \in 1..Len(uses) : uses[j].mod = m}}
        IN /\ {table[i].key : i \in 1..Len(table)} = keys
           /\ Len(table) = Cardinality(keys)
           /\ \A i \in 1..Len(table) :
                table[i].seg = uses[CHOOSE o \in Occurrences(m, table[i].key) :
                                        \A n \in Occurrences(m, table[i].key) : n <= o].seg
           /\ \A k \in keys : \A o \in Occurrences(m, k) :
                LET before == {n \in Occurrences(m, k) : n < o}
                IN before # {} =>
                    Cardinality(Shadowings(m,
                        uses[CHOOSE n \in before : \A x \in before : x <= n].seg,
                        uses[o].seg)) = 1
           /\ Cardinality({i \in 1..Len(diagnostics) :
                    diagnostics[i].id = "ShadowedImport" /\ diagnostics[i].env = m})
                = Cardinality({i \in 1..Len(uses) : uses[i].mod = m}) - Cardinality(keys)

\* a module has imported the same symbol three times and another one once,
\* and its traversal goes on
ImportShadowedTwice ==
    /\ phase = "walk"
    /\ \E m \in 0..Len(engine) - 1 : \E i, j \in 1..Len(uses) :
            /\ Cardinality(Occurrences(m, uses[i].key)) >= 3
            /\ uses[j].mod = m
            /\ uses[j].key # uses[i].key
            /\ Len(ImportsOf(imports, m)) = 2

\* the prefix of `n` segments of a name
Prefix(name, n) == SubSeq(name, 1, n)

\* C6: import_ast asks the importer for the prefixes of the requested name
\* from the longest down, each one NotFound but the last, none of them
\* visited before; it stops at a Success, whose prefix names the module it
\* attaches, at a Failure, at a prefix already visited or after the prefix of
\* one segment, and only a Success attaches a module.
ImportWalksThePrefixes ==
    [][(phase = "idle" /\ to_visit # <<>> /\ to_visit' = Front(to_visit)) =>
        LET name == Last(to_visit)
            n == Len(name)
            m == Len(queries') - Len(queries)
            asked(k) == queries'[Len(queries) + k]
            left == Prefix(name, n - m)
        IN /\ m \in 0..n
           /\ SubSeq(queries', 1, Len(queries)) = queries
           /\ \A k \in 1..m :
                /\ asked(k).name = Prefix(name, n - k + 1)
                /\ asked(k).name \notin visited
                /\ k < m => asked(k).result = "NotFound"
           /\ visited' = visited \cup {asked(k).name : k \in 1..m}
           /\ IF m > 0 /\ asked(m).result = "Success"
              THEN /\ phase' = "walk"
                   /\ Len(engine') = Len(engine) + 1
                   /\ Last(engine').fqn = asked(m).name
              ELSE /\ engine' = engine
                   /\ phase' = "idle"
                   /\ \/ m > 0 /\ asked(m).result = "Failure"
                      \/ left = <<>>
                      \/ left \in visited]_vars

\* the importer has not found a module of two segments and has found its
\* parent, which is attached, after another walk was stopped by a Failure
ImportFellBackToParent ==
    /\ Len(queries) >= 3
    /\ queries[Len(queries)].result = "Success"
    /\ queries[Len(queries) - 1].result = "NotFound"
    /\ Len(queries[Len(queries) - 1].name) = 2
    /\ queries[Len(queries)].name = Front(queries[Len(queries) - 1].name)
    /\ Last(engine).fqn = queries[Len(queries)].name
    /\ \E i \in 1..Len(queries) : queries[i].result = "Failure"

-----------------------------------------------------------------------------
(* Type annotations, parameters and the other constructs the collector
   reports or rejects *)

\* the type annotations of the modules under analysis
Types ==
    {NoType, ParametrizedType(<<"a">>), ParametrizedType(<<"a", ReefItem>>), CallableType,
     ByNameType}

Params == {NoParam, VariadicParam, NamedParam("a", CallableType)}

NextTypes ==
    \/ \E answers \in Found : ImportNext(answers)
    \/ FinishModule
    \/ FinishCollect
    \/ \E ty \in Types : WalkVarDeclaration("a", ty, "")
    \/ WalkVarDeclaration("b", ByNameType, "a")
    \/ \E ty \in {ParametrizedType(<<"a">>), ByNameType} : WalkCasted(ty)
    \/ \E param \in Params : BeginFunction("b", param, NoType)
    \/ BeginLambda(NamedParam("a", ParametrizedType(<<"b">>)))
    \/ EndFunction
    \/ WalkUse(EnvironmentImport)
    \/ WalkProgrammaticCall(<<"a", ReefItem>>)
    \/ WalkRead("a")

SpecTypes == Init /\ [][NextTypes]_vars

\* C7 (as the specification states it): the collection of a module never
\* aborts, whatever type annotations, parameters, paths and imports it holds.
CollectionNeverAborts == phase # "panicked"

-----------------------------------------------------------------------------
(* The identity of the symbols of the root environments *)

\* a module `a` that may import and declare `b`, next to a module `a::b`
NextClash ==
    \/ \E answers \in Found : ImportNext(answers)
    \/ FinishModule
    \/ FinishCollect
    \/ WalkUse(SymbolImport(<<"a", "b">>, ""))
    \/ \E name \in {"a", "b"} : WalkVarDeclaration(name, NoType, "")
    \/ WalkVarReference("VarReference", "b")
    \/ BeginMatchArm("b")
    \/ EndBlock

SpecClash == Init /\ [][NextClash]_vars

\* the kinds of AST node that declare the symbol they are annotated with
Declarations == {"VarDeclaration", "FunctionDeclaration", "Param", "Literal"}

\* the SymbolConflictsWithModule diagnostics of environment `id` located at
\* a node annotated with its local symbol `local`
ClashReports(id, local) ==
    {k \in DOMAIN diagnostics :
        /\ diagnostics[k].id = "SymbolConflictsWithModule"
        /\ diagnostics[k].env = id
        /\ \E d \in DOMAIN Env(engine, id).definitions :
                /\ Env(engine, id).definitions[d].seg = diagnostics[k].seg
                /\ Env(engine, id).definitions[d].sym = Local(local)}

\* C11: after a collection, a symbol declared in a root environment whose
\* fully-qualified name is the name of another root module has exactly one
\* SymbolConflictsWithModule diagnostic, located at its declaration, and the
\* other symbols have none
EveryClashIsReportedOnce ==
    phase = "collected" =>
        /\ \A id \in Roots(engine) : \A l \in DOMAIN Env(engine, id).locals :
              LET env == Env(engine, id)
                  var_fqn == Append(env.fqn, env.locals[l].name)
                  reports == ClashReports(id, l - 1)
              IN IF FindModule(engine, var_fqn) # NoId
                 THEN /\ Cardinality(reports) = 1
                      /\ \A k \in reports : \E d \in DOMAIN env.definitions :
                            /\ env.definitions[d].seg = diagnostics[k].seg
                            /\ env.definitions[d].sym = Local(l - 1)
                            /\ env.definitions[d].node \in Declarations
                 ELSE reports = {}
        /\ \A k \in DOMAIN diagnostics :
              diagnostics[k].id = "SymbolConflictsWithModule" =>
                  \E l \in DOMAIN Env(engine, diagnostics[k].env).locals :
                      k \in ClashReports(diagnostics[k].env, l - 1)

-----------------------------------------------------------------------------
(* The compiler: the resolution of the captures *)

\* ResolvedSymbol::new
ResolvedSymbol(source, object_id) == [source |-> source, object_id |-> object_id]

RECURSIVE Ascending(_)
\* the elements of a set of identifiers in ascending order
Ascending(ids) ==
    IF ids = {} THEN <<>>
    ELSE LET least == CHOOSE i \in ids : \A j \in ids : i <= j
         IN <<least>> \o Ascending(ids \ {least})

\* Environment::iter_direct_inner_environments
DirectInner(eng, chunk_id) ==
    Ascending({id \in 0..Len(eng) - 1 : Env(eng, id).parent = chunk_id})

\* the external variables of a chunk that resolve_captures keeps: resolved
\* symbols that are variables, and for a script are not exported
ExternalVars(eng, rels, chunk_id, is_script) ==
    {rels[r + 1] : r \in {x \in Env(eng, chunk_id).externals :
        LET var == Env(eng, rels[x + 1].source).vars[rels[x + 1].object_id + 1]
        IN var.ty = "Variable" /\ ~(is_script /\ var.exported)}}

RECURSIVE ResolveChunk(_, _, _, _, _)
RECURSIVE ResolveInner(_, _, _, _, _, _)
\* the loop of `resolve` over the inner functions of a chunk: `acc` holds the
\* captures vector and the set of externals shared by every call
ResolveInner(chunk_id, inner, i, eng, rels, acc) ==
    IF i > Len(inner) THEN acc
    ELSE LET r == ResolveChunk(inner[i], eng, rels, acc, FALSE)
         IN ResolveInner(chunk_id, inner, i + 1, eng, rels,
                [r EXCEPT !.externals = {symbol \in @ : symbol.source # chunk_id}])

\* resolve_captures::resolve
ResolveChunk(chunk_id, eng, rels, acc, is_script) ==
    LET a == ResolveInner(chunk_id, DirectInner(eng, chunk_id), 1, eng, rels, acc)
        externals == a.externals \cup ExternalVars(eng, rels, chunk_id, is_script)
    IN [captures |-> [a.captures EXCEPT ![chunk_id + 1] = externals],
        externals |-> externals]

\* Option::None in the captures vector
None == "None"

RECURSIVE ResolveScripts(_, _, _, _)
\* the loop of resolve_captures over the script chunks
ResolveScripts(scripts, i, eng, rels) ==
    IF i = 0 THEN [captures |-> [c \in 1..Len(eng) |-> None], externals |-> {}]
    ELSE ResolveChunk(scripts[i], eng, rels, ResolveScripts(scripts, i - 1, eng, rels), TRUE)

\* resolve_captures, as called by compile
CompileCaptures ==
    /\ link_engine # <<>>
    /\ captures = <<>>
    /\ captures' = ResolveScripts(Ascending(Roots(link_engine)), Cardinality(Roots(link_engine)),
                                  link_engine, link_relations).captures
    /\ UNCHANGED <<link_engine, link_relations>>
    /\ UNCHANGED but_kvars

RECURSIVE AncestorsIn(_, _)
\* the strict ancestors of a chunk, given the parent of every function
AncestorsIn(parent, id) ==
    IF id = 0 THEN {} ELSE {parent[id]} \cup AncestorsIn(parent, parent[id])

\* the nestings of MaxChunks - 1 functions under one script: SourceIds are
\* given in the order the collector meets the declarations
Nestings ==
    {parent \in [1..MaxChunks - 1 -> 0..MaxChunks - 2] :
        \A id \in 1..MaxChunks - 1 :
            /\ parent[id] < id
            /\ id > 1 => parent[id] \in AncestorsIn(parent, id - 1) \cup {id - 1}}

\* no reference
NoRef == ResolvedSymbol(NoId, NoId)

\* what a function may refer to outside of itself: nothing, or one of the
\* two symbols of an ancestor
RefsOf(parent, id) ==
    {NoRef} \cup {ResolvedSymbol(a, o) : a \in AncestorsIn(parent, id), o \in 0..1}

\* every environment declares a variable (LocalId 0) and a function
\* (LocalId 1); function `id` refers to refs[id] through relation id - 1
LinkedEngine(parent, refs) ==
    [i \in 1..MaxChunks |->
        [parent |-> IF i = 1 THEN NoId ELSE parent[i - 1],
         vars |-> <<[ty |-> "Variable", exported |-> FALSE],
                    [ty |-> "Function", exported |-> FALSE]>>,
         externals |-> IF i > 1 /\ refs[i - 1] # NoRef THEN {i - 2} ELSE {}]]

InitCaptures ==
    /\ AnalyzerInit
    /\ EmitterIdle
    /\ PoolIdle
    /\ PipelineIdle
    /\ ModulesIdle
    /\ MappingsIdle
    /\ RunsIdle
    /\ FunctionsIdle
    /\ ReturnsIdle
    /\ AscriptionIdle
    /\ LayoutIdle
    /\ captures = <<>>
    /\ \E parent \in Nestings :
         \E refs \in [1..MaxChunks - 1 -> {NoRef} \cup
                        {ResolvedSymbol(a, o) : a \in 0..MaxChunks - 2, o \in 0..1}] :
            /\ \A id \in 1..MaxChunks - 1 : refs[id] \in RefsOf(parent, id)
            /\ link_engine = LinkedEngine(parent, refs)
            /\ link_relations = refs

SpecCaptures == InitCaptures /\ [][CompileCaptures]_vars

RECURSIVE LinkAncestors(_)
\* the strict ancestors of a chunk of the compiled engine
LinkAncestors(id) ==
    IF Env(link_engine, id).parent = NoId THEN {}
    ELSE {Env(link_engine, id).parent} \cup LinkAncestors(Env(link_engine, id).parent)

\* the symbols a chunk refers to outside of itself
ReferencedBy(id) == {link_relations[r + 1] : r \in Env(link_engine, id).externals}

\* the variables of strict ancestors of f referenced by f or inside of f
ExpectedCaptures(f) ==
    {symbol \in UNION {ReferencedBy(g) : g \in {h \in 0..Len(link_engine) - 1 :
                                                h = f \/ f \in LinkAncestors(h)}} :
        /\ symbol.source \in LinkAncestors(f)
        /\ Env(link_engine, symbol.source).vars[symbol.object_id + 1].ty = "Variable"}

\* C12: the captures of every chunk are exactly the variables of its strict
\* ancestors that the chunk or a function nested inside of it refers to
CapturesAreExact ==
    captures # <<>> =>
        \A f \in 0..Len(link_engine) - 1 : captures[f + 1] = ExpectedCaptures(f)

-----------------------------------------------------------------------------
(* The compiler: the bytecode of a chunk *)

\* Opcode::PushByte
PushByte == 1

\* Opcode::IfNotJump
IfNotJump == 16

\* Opcode::Jump
Jump == 17

\* u32::to_be_bytes
ToBeBytes(value) ==
    <<(value \div 16777216) % 256, (value \div 65536) % 256, (value \div 256) % 256,
      value % 256>>

\* u32::from_be_bytes of the four bytes from position `pos` on
ReadU32(bytes, pos) ==
    bytes[pos + 1] * 16777216 + bytes[pos + 2] * 65536 + bytes[pos + 3] * 256 + bytes[pos + 4]

\* Bytecode::emit_byte
EmitByte(bytes, value) == Append(bytes, value)

\* Bytecode::emit_u32
EmitU32(bytes, value) == bytes \o ToBeBytes(value)

\* Bytecode::emit_u32_placeholder; the placeholder is the previous length
EmitU32Placeholder(bytes) == bytes \o <<0, 0, 0, 0>>

\* Bytecode::patch_u32_placeholder
PatchU32Placeholder(bytes, pos, value) ==
    [i \in 1..Len(bytes) |->
        IF i \in (pos + 1)..(pos + 4) THEN ToBeBytes(value)[i - pos] ELSE bytes[i]]

\* a variant of current_ip that forgets where the instructions start
CurrentIpOfBuffer(bytes, offset) == Len(bytes)

\* Instructions::current_ip (the lengths are far below the width of a u32)
CurrentIp(bytes, offset) == Len(bytes) - offset

\* Instructions::emit_jump; the placeholder is the previous length plus one
EmitJump(bytes, opcode) == EmitU32Placeholder(EmitByte(bytes, opcode))

\* Instructions::patch_jump
PatchJump(bytes, offset, pos) == PatchU32Placeholder(bytes, pos, CurrentIp(bytes, offset))

\* Instructions::jump_back_to
JumpBackTo(bytes, start_idx) == EmitU32(EmitByte(bytes, Jump), start_idx)

\* EmissionState::new
NewEmissionState(use_values) ==
    [enclosing_loop_start |-> 0, enclosing_loop_end_placeholders |-> <<>>,
     use_values |-> use_values]

\* EmissionState::in_loop
InLoop(loop_start) ==
    [enclosing_loop_start |-> loop_start, enclosing_loop_end_placeholders |-> <<>>,
     use_values |-> FALSE]

\* a call of emit_loop or emit_conditional on the call stack: where it is
\* (`kind`), the state it hands to emit (`state`), the state it was called
\* with (`outer`) and its local variables
Frame(kind, state, outer, id, saved, ph, loop_start) ==
    [kind |-> kind, state |-> state, outer |-> outer, id |-> id, saved |-> saved,
     ph |-> ph, loop_start |-> loop_start]

Emitting == frames # <<>> /\ emitted < MaxEmit

Top == Last(frames)

\* the position in the call stack of the innermost loop whose body is being
\* emitted, 0 when there is none
InnermostBody(frs) ==
    LET bodies == {i \in DOMAIN frs : frs[i].kind = "LoopBody"}
    IN IF bodies = {} THEN 0 ELSE CHOOSE i \in bodies : \A j \in bodies : j <= i

\* the loop whose body is being emitted, 0 when there is none
InnermostLoop(frs) == IF InnermostBody(frs) = 0 THEN 0 ELSE frs[InnermostBody(frs)].id

\* the loops inside of that body whose condition is being emitted
ConditionsAbove(frs) ==
    {frs[i].id : i \in {j \in DOMAIN frs : j > InnermostBody(frs)
                                          /\ frs[j].kind = "LoopCondition"}}

\* compile_chunk_code, up to the emission of the chunk's expression
BeginChunk(parameters_bytes_count, return_bytes_count) ==
    /\ frames = <<>>
    /\ emitted < MaxEmit
    /\ emitted' = emitted + 1
    /\ LET locals_byte_count == Len(bytecode)
           b1 == EmitByte(EmitU32(EmitU32Placeholder(bytecode), parameters_bytes_count),
                          return_bytes_count)
           instruction_count == Len(b1)
           b2 == EmitU32Placeholder(b1)
       IN /\ bytecode' = b2
          /\ ip_offset' = Len(b2)
          /\ header' = [instruction_count |-> instruction_count,
                        locals_byte_count |-> locals_byte_count, opened |-> Len(b2)]
    /\ estates' = <<NewEmissionState(return_bytes_count # 0)>>
    /\ frames' = <<Frame("Chunk", 1, 1, 0, FALSE, NoId, 0)>>
    /\ UNCHANGED <<jumps, patches, loops, conditionals>>
    /\ UNCHANGED but_evars

\* compile_chunk_code, once the chunk's expression is emitted
EndChunk(locals_length) ==
    /\ Len(frames) = 1
    /\ LET instruction_byte_count == CurrentIp(bytecode, ip_offset)
           b1 == PatchU32Placeholder(bytecode, header.instruction_count,
                                     instruction_byte_count)
       IN /\ bytecode' = PatchU32Placeholder(b1, header.locals_byte_count, locals_length)
          /\ patches' = patches \o
                <<[pos |-> header.instruction_count, value |-> instruction_byte_count],
                  [pos |-> header.locals_byte_count, value |-> locals_length]>>
    /\ frames' = <<>>
    /\ estates' = <<>>
    /\ UNCHANGED <<ip_offset, header, jumps, loops, conditionals, emitted>>
    /\ UNCHANGED but_evars

\* ExprKind::Literal
EmitLiteral ==
    /\ Emitting
    /\ emitted' = emitted + 1
    /\ bytecode' = IF estates[Top.state].use_values
                   THEN EmitByte(EmitByte(bytecode, PushByte), 1)
                   ELSE bytecode
    /\ UNCHANGED <<ip_offset, header, frames, estates, jumps, patches, loops, conditionals>>
    /\ UNCHANGED but_evars

\* emit_loop, up to its condition or, without one, up to its body
BeginLoop(has_condition) ==
    /\ Emitting
    /\ emitted' = emitted + 1
    /\ LET loop_start == CurrentIp(bytecode, ip_offset)
           outer == Top.state
           loop_state == Len(estates) + 1
           last_used == estates[outer].use_values
       IN /\ estates' = Append(IF has_condition
                               THEN [estates EXCEPT ![outer].use_values = TRUE]
                               ELSE estates,
                               InLoop(loop_start))
          /\ frames' = Append(frames,
                Frame(IF has_condition THEN "LoopCondition" ELSE "LoopBody",
                      IF has_condition THEN outer ELSE loop_state,
                      outer, Len(loops) + 1, last_used, NoId, loop_start))
          /\ loops' = Append(loops,
                [base |-> ip_offset, start |-> Len(bytecode), back_jump |-> NoId,
                 created |-> <<>>, closed |-> FALSE,
                 before |-> estates[outer].enclosing_loop_end_placeholders,
                 after |-> <<>>])
    /\ UNCHANGED <<bytecode, ip_offset, header, jumps, patches, conditionals>>
    /\ UNCHANGED but_evars

\* emit_loop, from the end of its condition to its body
EndLoopCondition ==
    /\ frames # <<>>
    /\ Top.kind = "LoopCondition"
    /\ LET jump_to_end == Len(bytecode) + 1
           loop_state == Len(estates)
       IN /\ bytecode' = EmitJump(bytecode, IfNotJump)
          /\ estates' = [estates EXCEPT
                ![Top.outer].use_values = Top.saved,
                ![loop_state].enclosing_loop_end_placeholders = Append(@, jump_to_end)]
          /\ frames' = [frames EXCEPT ![Len(frames)].kind = "LoopBody",
                                      ![Len(frames)].state = loop_state]
          /\ loops' = [loops EXCEPT ![Top.id].created = Append(@, jump_to_end)]
    /\ UNCHANGED <<ip_offset, header, jumps, patches, conditionals, emitted>>
    /\ UNCHANGED but_evars

RECURSIVE PatchJumps(_, _, _, _)
\* the loop of emit_loop over the placeholders of the loop
PatchJumps(bytes, offset, placeholders, i) ==
    IF i > Len(placeholders) THEN bytes
    ELSE PatchJumps(PatchJump(bytes, offset, placeholders[i]), offset, placeholders, i + 1)

\* a variant of emit_loop that patches the placeholders of the state it was
\* called with
PendingOfCaller(frame) == estates[frame.outer].enclosing_loop_end_placeholders

\* the placeholders emit_loop patches: those of its loop_state
PendingOfLoop(frame) == estates[frame.state].enclosing_loop_end_placeholders

\* emit_loop, once its body is emitted
EndLoop ==
    /\ frames # <<>>
    /\ Top.kind = "LoopBody"
    /\ LET b1 == JumpBackTo(bytecode, Top.loop_start)
           pending == PendingOfLoop(Top)
       IN /\ bytecode' = PatchJumps(b1, ip_offset, pending, 1)
          /\ patches' = patches \o
                [i \in 1..Len(pending) |->
                    [pos |-> pending[i], value |-> CurrentIp(b1, ip_offset)]]
          /\ loops' = [loops EXCEPT
                ![Top.id].back_jump = Len(bytecode),
                ![Top.id].closed = TRUE,
                ![Top.id].after = estates[Top.outer].enclosing_loop_end_placeholders]
    /\ frames' = Front(frames)
    /\ estates' = Front(estates)
    /\ UNCHANGED <<ip_offset, header, jumps, conditionals, emitted>>
    /\ UNCHANGED but_evars

\* emit_continue; the typing only lets it through inside the body of a loop
EmitContinue ==
    /\ Emitting
    /\ InnermostLoop(frames) # 0
    /\ emitted' = emitted + 1
    /\ bytecode' = JumpBackTo(bytecode, estates[Top.state].enclosing_loop_start)
    /\ jumps' = Append(jumps, [kind |-> "Continue", pos |-> Len(bytecode) + 1,
                               loop |-> InnermostLoop(frames),
                               conditions |-> ConditionsAbove(frames)])
    /\ UNCHANGED <<ip_offset, header, frames, estates, patches, loops, conditionals>>
    /\ UNCHANGED but_evars

\* emit_break; the typing only lets it through inside the body of a loop
EmitBreak ==
    /\ Emitting
    /\ InnermostLoop(frames) # 0
    /\ emitted' = emitted + 1
    /\ bytecode' = EmitJump(bytecode, Jump)
    /\ estates' = [estates EXCEPT
            ![Top.state].enclosing_loop_end_placeholders = Append(@, Len(bytecode) + 1)]
    /\ jumps' = Append(jumps, [kind |-> "Break", pos |-> Len(bytecode) + 1,
                               loop |-> InnermostLoop(frames),
                               conditions |-> ConditionsAbove(frames)])
    /\ loops' = [loops EXCEPT ![InnermostLoop(frames)].created = Append(@, Len(bytecode) + 1)]
    /\ UNCHANGED <<ip_offset, header, frames, patches, conditionals>>
    /\ UNCHANGED but_evars

\* emit_conditional, up to its condition
BeginConditional ==
    /\ Emitting
    /\ emitted' = emitted + 1
    /\ estates' = [estates EXCEPT ![Top.state].use_values = TRUE]
    /\ frames' = Append(frames,
            Frame("Condition", Top.state, Top.state, Len(conditionals) + 1,
                  estates[Top.state].use_values, NoId, 0))
    /\ conditionals' = Append(conditionals,
            [base |-> ip_offset, jump_to_else |-> NoId, jump_to_end |-> NoId,
             otherwise |-> NoId, end |-> NoId])
    /\ UNCHANGED <<bytecode, ip_offset, header, jumps, patches, loops>>
    /\ UNCHANGED but_evars

\* emit_conditional, from the end of its condition to its first branch
EndCondition ==
    /\ frames # <<>>
    /\ Top.kind = "Condition"
    /\ bytecode' = EmitJump(bytecode, IfNotJump)
    /\ estates' = [estates EXCEPT ![Top.state].use_values = Top.saved]
    /\ frames' = [frames EXCEPT ![Len(frames)].kind = "Then",
                                ![Len(frames)].ph = Len(bytecode) + 1]
    /\ conditionals' = [conditionals EXCEPT ![Top.id].jump_to_else = Len(bytecode) + 1]
    /\ UNCHANGED <<ip_offset, header, jumps, patches, loops, emitted>>
    /\ UNCHANGED but_evars

\* a variant of emit_conditional that patches the jump to the else branch
\* before it emits the jump to the end
ElseBeforeJump(bytes) == bytes

\* the bytes emit_conditional has emitted when it patches the jump to the
\* else branch: the first branch and the jump to the end
ElseAfterJump(bytes) == EmitJump(bytes, Jump)

\* emit_conditional, from the end of its first branch to its else branch, or
\* to its end when it has none
EndThen(has_otherwise) ==
    /\ frames # <<>>
    /\ Top.kind = "Then"
    /\ LET jump_to_end == Len(bytecode) + 1
           b1 == EmitJump(bytecode, Jump)
           else_ip == CurrentIp(ElseAfterJump(bytecode), ip_offset)
           b2 == PatchU32Placeholder(b1, Top.ph, else_ip)
           to_else == [pos |-> Top.ph, value |-> else_ip]
       IN /\ conditionals' = [conditionals EXCEPT
                ![Top.id].jump_to_end = jump_to_end,
                ![Top.id].otherwise = Len(b1),
                ![Top.id].end = IF has_otherwise THEN NoId ELSE Len(b1)]
          /\ IF has_otherwise
             THEN /\ bytecode' = b2
                  /\ patches' = Append(patches, to_else)
                  /\ frames' = [frames EXCEPT ![Len(frames)].kind = "Otherwise",
                                              ![Len(frames)].ph = jump_to_end]
             ELSE /\ bytecode' = PatchJump(b2, ip_offset, jump_to_end)
                  /\ patches' = patches \o
                        <<to_else, [pos |-> jump_to_end, value |-> CurrentIp(b2, ip_offset)]>>
                  /\ frames' = Front(frames)
    /\ UNCHANGED <<ip_offset, header, estates, jumps, loops, emitted>>
    /\ UNCHANGED but_evars

\* emit_conditional, once its else branch is emitted
EndOtherwise ==
    /\ frames # <<>>
    /\ Top.kind = "Otherwise"
    /\ bytecode' = PatchJump(bytecode, ip_offset, Top.ph)
    /\ patches' = Append(patches, [pos |-> Top.ph, value |-> CurrentIp(bytecode, ip_offset)])
    /\ conditionals' = [conditionals EXCEPT ![Top.id].end = Len(bytecode)]
    /\ frames' = Front(frames)
    /\ UNCHANGED <<ip_offset, header, estates, jumps, loops, emitted>>
    /\ UNCHANGED but_evars

\* the emission of the chunks of a unit, one after the other
NextEmit ==
    \/ \E return_bytes_count \in {0, 1} : BeginChunk(8, return_bytes_count)
    \/ EndChunk(8)
    \/ EmitLiteral
    \/ \E has_condition \in BOOLEAN : BeginLoop(has_condition)
    \/ EndLoopCondition
    \/ EndLoop
    \/ EmitContinue
    \/ EmitBreak
    \/ BeginConditional
    \/ EndCondition
    \/ \E has_otherwise \in BOOLEAN : EndThen(has_otherwise)
    \/ EndOtherwise

SpecEmit == Init /\ [][NextEmit]_vars

\* how many times the placeholder at the position has been patched
Patched(pos) == Cardinality({i \in DOMAIN patches : patches[i].pos = pos})

\* the instruction offset that follows the back-jump of a loop
AfterBackJump(loop) == loops[loop].back_jump + 5 - loops[loop].base

\* the operand of every `continue` is the start of the loop around it
ContinuesReachTheStart ==
    \A i \in DOMAIN jumps :
        jumps[i].kind = "Continue" =>
            ReadU32(bytecode, jumps[i].pos)
                = loops[jumps[i].loop].start - loops[jumps[i].loop].base

\* the operand of every `break` is patched, when the loop around it ends, to
\* the offset that follows its back-jump
BreaksReachTheEnd ==
    \A i \in DOMAIN jumps :
        jumps[i].kind = "Break" =>
            IF loops[jumps[i].loop].closed
            THEN /\ ReadU32(bytecode, jumps[i].pos) = AfterBackJump(jumps[i].loop)
                 /\ Patched(jumps[i].pos) = 1
            ELSE Patched(jumps[i].pos) = 0

\* once emit_loop has returned, every placeholder created for its loop has
\* been patched exactly once
PlaceholdersArePatchedOnce ==
    \A l \in DOMAIN loops :
        loops[l].closed =>
            \A k \in DOMAIN loops[l].created :
                /\ Patched(loops[l].created[k]) = 1
                /\ ReadU32(bytecode, loops[l].created[k]) = AfterBackJump(l)

\* the placeholders of the breaks emitted in the condition of the loop
BreaksOfCondition(loop) ==
    LET breaks == SelectSeq(jumps, LAMBDA j : j.kind = "Break" /\ loop \in j.conditions)
    IN [i \in 1..Len(breaks) |-> breaks[i].pos]

\* C13, as stated: every `break` jumps behind the back-jump of the innermost
\* loop around it, every `continue` to its start, every placeholder of a loop
\* is patched exactly once when emit_loop returns, and emit_loop leaves the
\* pending placeholders of the enclosing loop as they were
LoopLeavesTheEnclosingLoop ==
    /\ BreaksReachTheEnd
    /\ ContinuesReachTheStart
    /\ PlaceholdersArePatchedOnce
    /\ \A l \in DOMAIN loops : loops[l].closed => loops[l].after = loops[l].before

\* C13, amended: every `break` jumps behind the back-jump of the innermost
\* loop whose body holds it, every `continue` to its start, every
\* placeholder of a loop is patched exactly once when emit_loop returns, and
\* emit_loop adds to the pending placeholders of the enclosing loop the breaks
\* of its condition and nothing else
LoopJumpsArePatched ==
    /\ BreaksReachTheEnd
    /\ ContinuesReachTheStart
    /\ PlaceholdersArePatchedOnce
    /\ \A l \in DOMAIN loops :
          loops[l].closed => loops[l].after = loops[l].before \o BreaksOfCondition(l)

\* a loop has returned whose condition held a `break` of the loop around it,
\* and that loop has returned too
BreakOfConditionPatched ==
    \E l \in DOMAIN loops :
        /\ loops[l].closed
        /\ loops[l].after # loops[l].before
        /\ \E i \in DOMAIN jumps :
              /\ jumps[i].kind = "Break"
              /\ l \in jumps[i].conditions
              /\ loops[jumps[i].loop].closed

\* C14: once emit_conditional has returned, its IfNotJump leads to the byte
\* that follows its Jump, its Jump to the byte that follows the else
\* branch, both inside the instructions of the chunk, and each placeholder has
\* been patched exactly once
ConditionalJumpsArePatched ==
    \A c \in DOMAIN conditionals :
        conditionals[c].end # NoId =>
            LET to_else == ReadU32(bytecode, conditionals[c].jump_to_else)
                to_end == ReadU32(bytecode, conditionals[c].jump_to_end)
            IN /\ to_else = conditionals[c].otherwise - conditionals[c].base
               /\ conditionals[c].otherwise = conditionals[c].jump_to_end + 4
               /\ to_end = conditionals[c].end - conditionals[c].base
               /\ Patched(conditionals[c].jump_to_else) = 1
               /\ Patched(conditionals[c].jump_to_end) = 1
               /\ conditionals[c].base = ip_offset =>
                     /\ to_else \in 0..CurrentIp(bytecode, ip_offset)
                     /\ to_end \in to_else..CurrentIp(bytecode, ip_offset)

\* a conditional has returned whose else branch has emitted instructions
ConditionalWithElseEmitted ==
    \E c \in DOMAIN conditionals :
        /\ conditionals[c].end # NoId
        /\ conditionals[c].end > conditionals[c].otherwise
        /\ conditionals[c].jump_to_else > conditionals[c].base + 1

\* C15: the instruction count recorded for a compiled chunk is the number of
\* bytes appended since its instructions were opened
InstructionCountIsTheBodyLength ==
    (frames = <<>> /\ header.opened # NoId) =>
        ReadU32(bytecode, header.instruction_count) = Len(bytecode) - header.opened

\* a chunk that is not the first of the unit has been compiled, with
\* placeholders patched in its body
ChunkWithPatchedJumpsCompiled ==
    /\ frames = <<>>
    /\ header.locals_byte_count > 0
    /\ Len(bytecode) > header.opened
    /\ \E i \in DOMAIN patches :
          patches[i].pos > header.opened /\ patches[i].value > 0

-----------------------------------------------------------------------------
(* The compiler: the constant pool *)

\* PoolConstant::String
PoolString(str) == <<"String", str>>

\* PoolConstant::Signature of a FunctionSignature
PoolSignature(name, params, ret) == <<"Signature", name, params, ret>>

\* IndexSet::get_index_of: the position of the constant, 0 when it is absent
IndexOf(pool, constant) ==
    IF \E i \in DOMAIN pool : pool[i] = constant
    THEN CHOOSE i \in DOMAIN pool : pool[i] = constant
    ELSE 0

\* a variant of insert_full that appends whether or not the constant is known
PushConstant(pool, constant) ==
    [constants |-> Append(pool, constant), index |-> Len(pool)]

\* IndexSet::insert_full: the set after the insertion and the index of the
\* constant in it
InsertFull(pool, constant) ==
    IF IndexOf(pool, constant) # 0
    THEN [constants |-> pool, index |-> IndexOf(pool, constant) - 1]
    ELSE [constants |-> Append(pool, constant), index |-> Len(pool)]

\* ConstantPool::insert
Insert(constant) ==
    /\ inserts < MaxInserts
    /\ inserts' = inserts + 1
    /\ constants' = InsertFull(constants, constant).constants
    /\ returned' = [constant |-> constant, index |-> InsertFull(constants, constant).index]
    /\ UNCHANGED but_pvars

\* ConstantPool::insert_string
InsertString(str) == Insert(PoolString(str))

\* ConstantPool::insert_signature
InsertSignature(name, params, ret) == Insert(PoolSignature(name, params, ret))

\* the strings and the signatures of a compiled unit
Strings == {"a", "b", "c"}

NextPool ==
    \/ \E str \in Strings : InsertString(str)
    \/ \E name \in 0..1, ret \in 0..1 : InsertSignature(name, <<>>, ret)

SpecPool == Init /\ [][NextPool]_vars

\* C16: an insertion of a constant the pool holds returns the index of that
\* constant and leaves the pool as it is, an insertion of a new constant
\* returns the previous size of the pool, and no insertion changes the index
\* of a constant of the pool
InsertionIsIdempotent ==
    [][inserts' # inserts =>
        LET constant == returned'.constant
            known == {i \in DOMAIN constants : constants[i] = constant}
        IN /\ \A i \in DOMAIN constants :
                i \in DOMAIN constants' /\ constants'[i] = constants[i]
           /\ known # {} =>
                /\ constants' = constants
                /\ known = {returned'.index + 1}
           /\ known = {} =>
                /\ returned'.index = Len(constants)
                /\ constants' = Append(constants, constant)]_vars

\* a string has been inserted again after other constants, a signature among
\* them, and has got the index it was given first
StringInsertedAgain ==
    /\ returned.index # NoId
    /\ returned.constant[1] = "String"
    /\ returned.index + 1 < Len(constants)
    /\ Len(constants) < inserts
    /\ \E i \in DOMAIN constants : constants[i][1] = "Signature"

-----------------------------------------------------------------------------
(* The pipeline of the command line and of the REPL *)

RECURSIVE ImportStatus(_, _, _)
\* the loop of use_pipeline over the import errors
ImportStatus(errs, i, import_status) ==
    IF i > Len(errs) THEN import_status
    ELSE ImportStatus(errs, i + 1,
            IF errs[i] = "IO" THEN "IoError"
            ELSE IF import_status # "IoError" THEN "AnalysisError"
            ELSE import_status)

\* a variant of use_pipeline that goes on whatever the diagnostics
NeverHadErrors(diagnostics_count) == FALSE

\* use_pipeline: had_errors
HadErrors(diagnostics_count) == diagnostics_count # 0

\* the pipeline leaves its stage for the next one or returns
Advance(next_stage, next_status) ==
    /\ stage' = next_stage
    /\ status' = next_status

\* use_pipeline, up to the report of the import errors
UsePipeline(import_errors, diagnostics_count, engine_is_empty, cli) ==
    /\ stage = "idle"
    /\ runs < MaxRuns
    /\ runs' = runs + 1
    /\ errors' = import_errors
    /\ diagnosed' = diagnostics_count
    /\ config' = cli
    /\ ran' = <<>>
    /\ IF import_errors = <<>> /\ engine_is_empty
       THEN Advance("returned", "IoError")
       ELSE Advance("import_errors", "None")
    /\ UNCHANGED but_svars

\* use_pipeline: the report of the import errors
ReportImportErrors ==
    /\ stage = "import_errors"
    /\ IF ImportStatus(errors, 1, "Success") # "Success"
       THEN Advance("returned", ImportStatus(errors, 1, "Success"))
       ELSE Advance("diagnostics", "None")
    /\ UNCHANGED <<errors, diagnosed, config, ran, runs>>
    /\ UNCHANGED but_svars

\* use_pipeline: the report of the diagnostics
ReportDiagnostics ==
    /\ stage = "diagnostics"
    /\ IF HadErrors(diagnosed)
       THEN Advance("returned", "AnalysisError")
       ELSE Advance("compile", "None")
    /\ UNCHANGED <<errors, diagnosed, config, ran, runs>>
    /\ UNCHANGED but_svars

\* use_pipeline: the call of the compiler
Compile ==
    /\ stage = "compile"
    /\ ran' = Append(ran, "compile")
    /\ Advance("run", "None")
    /\ UNCHANGED <<errors, diagnosed, config, runs>>
    /\ UNCHANGED but_svars

\* use_pipeline: the execution of the bytecode, unless --no-execute
Run(result) ==
    /\ stage = "run"
    /\ IF config.no_execute
       THEN /\ ran' = ran
            /\ Advance("returned", "Success")
       ELSE /\ ran' = ran \o <<"register", "run">>
            /\ IF result = "Internal" THEN Advance("panicked", "None")
               ELSE Advance("returned",
                            IF result = "Panic" THEN "ExecutionFailure" ELSE "Success")
    /\ UNCHANGED <<errors, diagnosed, config, runs>>
    /\ UNCHANGED but_svars

\* handle_source, up to the analysis
HandleSource(parse_errors) ==
    /\ stage = "idle"
    /\ runs < MaxRuns
    /\ runs' = runs + 1
    /\ errors' = parse_errors
    /\ diagnosed' = 0
    /\ ran' = <<>>
    /\ IF parse_errors # <<>>
       THEN Advance("returned", "None")
       ELSE Advance("resolution", "None")
    /\ UNCHANGED config
    /\ UNCHANGED but_svars

\* handle_source: make_full_resolution
MakeFullResolution(diagnostics_count) ==
    /\ stage = "resolution"
    /\ diagnosed' = diagnostics_count
    /\ IF diagnostics_count # 0
       THEN Advance("returned", "None")
       ELSE Advance("typing", "None")
    /\ UNCHANGED <<errors, config, ran, runs>>
    /\ UNCHANGED but_svars

\* handle_source: apply_types
TypeSource(diagnostics_count) ==
    /\ stage = "typing"
    /\ diagnosed' = diagnosed + diagnostics_count
    /\ IF diagnosed + diagnostics_count # 0
       THEN Advance("returned", "None")
       ELSE Advance("emission", "None")
    /\ UNCHANGED <<errors, config, ran, runs>>
    /\ UNCHANGED but_svars

\* handle_source: compile and execute
CompileAndExecute ==
    /\ stage = "emission"
    /\ ran' = ran \o <<"compile", "execute">>
    /\ Advance("returned", "None")
    /\ UNCHANGED <<errors, diagnosed, config, runs>>
    /\ UNCHANGED but_svars

\* the caller of the pipeline, once it has returned: the loop of the REPL,
\* or another invocation of the command line
NextRun ==
    /\ stage = "returned"
    /\ runs < MaxRuns
    /\ Advance("idle", "None")
    /\ errors' = <<>>
    /\ diagnosed' = 0
    /\ ran' = <<>>
    /\ UNCHANGED <<config, runs>>
    /\ UNCHANGED but_svars

\* the import errors of a run
ImportErrors == {<<>>, <<"IO">>, <<"Parse">>, <<"Parse", "IO">>, <<"IO", "Parse">>}

\* the flags of the command line
Flags == [ast : {FALSE}, disassemble : BOOLEAN, no_execute : BOOLEAN]

NextPipeline ==
    \/ \E import_errors \in ImportErrors, diagnostics_count \in 0..2,
          engine_is_empty \in BOOLEAN, cli \in Flags :
            UsePipeline(import_errors, diagnostics_count, engine_is_empty, cli)
    \/ ReportImportErrors
    \/ ReportDiagnostics
    \/ Compile
    \/ \E result \in {"Ok", "Panic", "Internal"} : Run(result)
    \/ \E parse_errors \in {<<>>, <<"Parse">>} : HandleSource(parse_errors)
    \/ \E diagnostics_count \in 0..1 : MakeFullResolution(diagnostics_count)
    \/ \E diagnostics_count \in 0..1 : TypeSource(diagnostics_count)
    \/ CompileAndExecute
    \/ NextRun

SpecPipeline == Init /\ [][NextPipeline]_vars

\* C17: the compiler and the VM are only reached in a run without import
\* error and without diagnostic, and the VM only after the compiler
CompileOnlyWithoutErrors ==
    /\ (errors # <<>> \/ diagnosed # 0) => ran = <<>>
    /\ stage \in {"compile", "run", "emission"} => (errors = <<>> /\ diagnosed = 0)
    /\ ran # <<>> => ran[1] = "compile"

\* a run of use_pipeline has returned because of diagnostics, after a run
\* that went to the VM
StoppedByDiagnostics ==
    /\ stage = "returned"
    /\ status = "AnalysisError"
    /\ errors = <<>>
    /\ diagnosed # 0
    /\ runs = 2

-----------------------------------------------------------------------------
(* The ascription of the loops, of `break` and of `continue` *)

(* A program is the sequence of its tokens in source order, a segment is   *)
(* the index of a token.  "loop" opens the body of a `loop`, "while" the   *)
(* condition of a `while`, "do" ends the condition and opens the body,     *)
(* "fun" opens the body of a function declaration, "end" closes a body.    *)
(* Any other expression has no token.  A chunk is named by the segment     *)
(* of its "fun" token, the root script by 0: this is the order in which    *)
(* the collector numbers the sources.                                      *)
Tokens == {"break", "continue", "loop", "while", "do", "fun", "end"}

RECURSIVE WellFormed(_, _, _)
\* the parser accepts the tokens from i on, inside of the constructs `inside`
WellFormed(src, i, inside) ==
    IF i > Len(src) THEN inside = <<>>
    ELSE LET outer == SubSeq(inside, 1, Len(inside) - 1)
         IN  CASE src[i] \in {"break", "continue"} -> WellFormed(src, i + 1, inside)
               [] src[i] = "loop" -> WellFormed(src, i + 1, Append(inside, "body"))
               [] src[i] = "while" -> WellFormed(src, i + 1, Append(inside, "condition"))
               [] src[i] = "fun" -> WellFormed(src, i + 1, Append(inside, "function"))
               [] src[i] = "do" ->
                    /\ inside # <<>>
                    /\ inside[Len(inside)] = "condition"
                    /\ WellFormed(src, i + 1, Append(outer, "body"))
               [] src[i] = "end" ->
                    /\ inside # <<>>
                    /\ inside[Len(inside)] \in {"body", "function"}
                    /\ WellFormed(src, i + 1, outer)

\* the programs of at most MaxTokens tokens
Programs ==
    {src \in UNION {[1..n -> Tokens] : n \in 0..MaxTokens} : WellFormed(src, 1, <<>>)}

RECURSIVE CloseOf(_, _, _)
\* the segment of the "end" of the construct with `depth` constructs open at i
CloseOf(src, i, depth) ==
    IF i > Len(src) THEN i
    ELSE IF src[i] \in {"loop", "while", "fun"} THEN CloseOf(src, i + 1, depth + 1)
    ELSE IF src[i] = "end"
         THEN IF depth = 1 THEN i ELSE CloseOf(src, i + 1, depth - 1)
    ELSE CloseOf(src, i + 1, depth)

\* TypingState::new
NewTypingState(source) == [source |-> source, local_type |-> FALSE, in_loop |-> FALSE]

\* TypingState::with_in_loop
WithInLoop(state) == [state EXCEPT !.in_loop = TRUE]

\* a variant of with_local_type that also enters a loop
WithLocalTypeInLoop(state) == [state EXCEPT !.local_type = TRUE, !.in_loop = TRUE]

\* TypingState::with_local_type
WithLocalType(state) == [state EXCEPT !.local_type = TRUE]

\* TypingState::without_local_type
WithoutLocalType(state) == [state EXCEPT !.local_type = FALSE]

\* ascribe_continue_or_break: the diagnostics after it and the typed expression
AscribeContinueOrBreak(kind, diags, source, seg, in_loop) ==
    [diags |-> IF ~in_loop
               THEN Append(diags, Diag("InvalidBreakOrContinue", source, seg, kind))
               ELSE diags,
     expr |-> [kind |-> kind, ty |-> "Nothing", source |-> source, seg |-> seg]]

RECURSIVE AscribeTypes(_, _, _, _)
\* ascribe_types from the token i on, with the TypingState of every call of
\* ascribe_types on the call stack: ascribe_loop types the condition of a
\* `while` with the state of the loop and the body with with_in_loop,
\* ascribe_function_declaration does not look at the body
AscribeTypes(src, i, sts, out) ==
    IF i > Len(src) THEN out
    ELSE LET state == sts[Len(sts)]
             callers == SubSeq(sts, 1, Len(sts) - 1)
         IN  CASE src[i] \in {"break", "continue"} ->
                    LET r == AscribeContinueOrBreak(src[i], out.diags, state.source, i,
                                                    state.in_loop)
                    IN  AscribeTypes(src, i + 1, sts,
                                     [diags |-> r.diags, exprs |-> Append(out.exprs, r.expr)])
               [] src[i] = "fun" -> AscribeTypes(src, CloseOf(src, i + 1, 1) + 1, sts, out)
               [] src[i] = "loop" ->
                    AscribeTypes(src, i + 1,
                                 Append(sts, WithInLoop(WithoutLocalType(state))), out)
               [] src[i] = "while" ->
                    AscribeTypes(src, i + 1, Append(sts, WithLocalType(state)), out)
               [] src[i] = "do" ->
                    AscribeTypes(src, i + 1,
                                 Append(callers,
                                        WithInLoop(WithoutLocalType(callers[Len(callers)]))),
                                 out)
               [] src[i] = "end" ->
                    IF Len(sts) = 1 THEN out ELSE AscribeTypes(src, i + 1, callers, out)

\* the sources of a program: the root script and the function declarations
SourcesOf(src) == {0} \cup {i \in 1..Len(src) : src[i] = "fun"}

\* the sources already typed
Ascribed == {ascribed[n] : n \in 1..Len(ascribed)}

\* apply_types_to_source, on a source of the engine that is not typed yet
ApplyTypesToSource(env_id) ==
    /\ env_id \in SourcesOf(program) \ Ascribed
    /\ LET state == NewTypingState(env_id)
           out == AscribeTypes(program, env_id + 1,
                               <<IF env_id = 0 THEN state ELSE WithLocalType(state)>>,
                               [diags |-> reported, exprs |-> hir])
       IN  /\ reported' = out.diags
           /\ hir' = out.exprs
    /\ ascribed' = Append(ascribed, env_id)
    /\ UNCHANGED <<program, ctx, assigns, declared>>
    /\ UNCHANGED but_tvars

\* apply_types: the sources one after the other, in an order that
\* topological_sort chooses
NextAscription == \E env_id \in 0..MaxTokens + 1 : ApplyTypesToSource(env_id)

InitAscription ==
    /\ AnalyzerInit
    /\ link_engine = <<>>
    /\ link_relations = <<>>
    /\ captures = <<>>
    /\ EmitterIdle
    /\ PoolIdle
    /\ PipelineIdle
    /\ ModulesIdle
    /\ MappingsIdle
    /\ RunsIdle
    /\ FunctionsIdle
    /\ ReturnsIdle
    /\ LayoutIdle
    /\ program \in Programs
    /\ ascribed = <<>>
    /\ reported = <<>>
    /\ hir = <<>>
    /\ ctx = <<>>
    /\ assigns = <<>>
    /\ declared = <<>>

SpecAscription == InitAscription /\ [][NextAscription]_vars

\* the construct opened at j is still open at the segment seg
Encloses(src, j, seg) == j < seg /\ seg < CloseOf(src, j + 1, 1)

\* the source a segment belongs to
SourceOf(src, seg) ==
    LET funs == {j \in 1..Len(src) : src[j] = "fun" /\ Encloses(src, j, seg)}
    IN  IF funs = {} THEN 0 ELSE CHOOSE j \in funs : \A k \in funs : k <= j

\* the segment is in the body of a loop of its own chunk
InsideLoopBody(src, seg) ==
    \E j \in 1..Len(src) :
        /\ src[j] \in {"loop", "do"}
        /\ Encloses(src, j, seg)
        /\ j > SourceOf(src, seg)

\* the diagnostics reported at a segment
ReportedAt(seg) ==
    {n \in 1..Len(reported) :
        reported[n].seg = seg /\ reported[n].id = "InvalidBreakOrContinue"}

\* the typed expressions of a segment
TypedAt(seg) == {n \in 1..Len(hir) : hir[n].seg = seg}

\* the `break` and `continue` of the sources typed so far
Jumps == {seg \in 1..Len(program) :
            /\ program[seg] \in {"break", "continue"}
            /\ SourceOf(program, seg) \in Ascribed}

\* every `break` or `continue` of a typed source is typed Nothing and has
\* one diagnostic when it is outside of the loop bodies of its chunk, none
\* when it is inside
JumpsAreChecked ==
    \A seg \in Jumps :
        /\ Cardinality(TypedAt(seg)) = 1
        /\ \A n \in TypedAt(seg) : hir[n].ty = "Nothing" /\ hir[n].kind = program[seg]
        /\ Cardinality(ReportedAt(seg)) = IF InsideLoopBody(program, seg) THEN 0 ELSE 1
        /\ \A n \in ReportedAt(seg) :
              reported[n].env = SourceOf(program, seg) /\ reported[n].aux = program[seg]

\* there is no other diagnostic
OnlyJumpsAreReported == \A n \in 1..Len(reported) : reported[n].seg \in Jumps

\* the diagnostics of one chunk follow each other, in source order
ChunksAreInSourceOrder ==
    \A m, n \in 1..Len(reported) :
        m < n =>
            /\ reported[m].env = reported[n].env => reported[m].seg < reported[n].seg
            /\ \A l \in m..n : reported[m].env = reported[n].env =>
                                   reported[l].env = reported[m].env

\* C18 as stated: the diagnostics of the whole program are in source order
DiagnosticsInSourceOrder ==
    /\ JumpsAreChecked
    /\ \A m, n \in 1..Len(reported) : m < n => reported[m].seg < reported[n].seg

\* C18: a `break` or `continue` is typed Nothing and is reported once if and
\* only if it is outside of the loop bodies of its chunk; the diagnostics of
\* a chunk are in source order and are not interleaved with those of the
\* function declarations around or inside of it
BreakOrContinueIsChecked ==
    /\ JumpsAreChecked
    /\ OnlyJumpsAreReported
    /\ ChunksAreInSourceOrder

\* the `break` of the condition of a top-level `while` is reported, the
\* `continue` of its body is not
ConditionReportedBodyAccepted ==
    /\ Ascribed = SourcesOf(program)
    /\ \E seg \in Jumps :
          /\ seg > 1
          /\ program[seg - 1] = "while"
          /\ ReportedAt(seg) # {}
    /\ \E seg \in Jumps : InsideLoopBody(program, seg) /\ ReportedAt(seg) = {}

-----------------------------------------------------------------------------
(* The compiler: the stack sizes of the types *)

\* the type identifiers of the analyzer that reach the compiler, VECTOR for
\* the object types
CompilableTypes == {"NOTHING", "UNIT", "BOOL", "EXIT_CODE", "INT", "FLOAT", "STRING",
                    "VECTOR"}

\* get_type_stack_size
GetTypeStackSize(tpe) ==
    CASE tpe = "NOTHING" -> "Zero"
      [] tpe \in {"BOOL", "EXIT_CODE"} -> "Byte"
      [] tpe \in {"INT", "FLOAT"} -> "QWord"
      [] tpe = "ERROR" -> "panic"
      [] OTHER -> "Reference"

\* u8::from(ValueStackSize)
BytesOf(size) ==
    CASE size = "Zero" -> 0
      [] size = "Byte" -> 1
      [] size = "QWord" -> 8
      [] size = "Reference" -> 8

RECURSIVE Sum(_)
\* Iterator::sum, within u32
Sum(counts) == IF counts = <<>> THEN 0 ELSE counts[1] + Sum(Tail(counts))

\* compile_chunk_code: the byte counts of the header of the chunk
CompileChunkHeader ==
    /\ layout = NoLayout
    /\ LET sizes == [i \in 1..Len(chunk.parameters) |->
                        GetTypeStackSize(chunk.parameters[i])]
           explicit_params_count == Sum([i \in 1..Len(sizes) |-> BytesOf(sizes[i])])
           captures_params_count == chunk.captures * BytesOf("QWord")
       IN  layout' = [sizes |-> sizes,
                      parameters_bytes_count |->
                          explicit_params_count + captures_params_count,
                      return_bytes_count |->
                          BytesOf(GetTypeStackSize(chunk.return_type))]
    /\ UNCHANGED chunk
    /\ UNCHANGED but_lvars

InitLayout ==
    /\ AnalyzerInit
    /\ link_engine = <<>>
    /\ link_relations = <<>>
    /\ captures = <<>>
    /\ EmitterIdle
    /\ PoolIdle
    /\ PipelineIdle
    /\ ModulesIdle
    /\ MappingsIdle
    /\ RunsIdle
    /\ FunctionsIdle
    /\ ReturnsIdle
    /\ AscriptionIdle
    /\ chunk \in [parameters : UNION {[1..n -> CompilableTypes] : n \in 0..MaxParams},
                  return_type : CompilableTypes,
                  captures : 0..1]
    /\ layout = NoLayout

SpecLayout == InitLayout /\ [][CompileChunkHeader]_vars

\* the stack size the layout of the locals gives to a type
SizeOfLayout(tpe) ==
    CASE tpe \in {"UNIT", "NOTHING"} -> "Zero"
      [] tpe \in {"BOOL", "EXIT_CODE"} -> "Byte"
      [] tpe \in {"INT", "FLOAT"} -> "QWord"
      [] OTHER -> "Reference"

\* C19: the stack size of a type is Zero (0 bytes) for Unit and Nothing,
\* Byte (1 byte) for Bool and ExitCode, QWord (8 bytes) for Int and Float,
\* Reference (8 bytes) for String and the other types, for the parameters
\* and for the return type of a chunk
StackSizesAreThoseOfTheLayout ==
    layout # NoLayout =>
        /\ \A i \in 1..Len(chunk.parameters) :
              layout.sizes[i] = SizeOfLayout(chunk.parameters[i])
        /\ layout.parameters_bytes_count =
              Sum([i \in 1..Len(chunk.parameters) |->
                      BytesOf(SizeOfLayout(chunk.parameters[i]))]) + 8 * chunk.captures
        /\ layout.return_bytes_count = BytesOf(SizeOfLayout(chunk.return_type))

\* the same, but for Unit
StackSizesButOfUnit ==
    (/\ layout # NoLayout
     /\ chunk.return_type # "UNIT"
     /\ \A i \in 1..Len(chunk.parameters) : chunk.parameters[i] # "UNIT") =>
        StackSizesAreThoseOfTheLayout

-----------------------------------------------------------------------------
(* The ascription of the assignments *)

\* TypedVariable: a local of the type context
TypedVariable(type_ref, can_reassign) == [type_ref |-> type_ref, can_reassign |-> can_reassign]

\* Type::is_named: the type of a function declaration
IsNamed(ty) == ty = "FUNCTION"

\* convert_expression: the right-hand side fits the variable, as it is or
\* after a numeric widening; Error is compatible with every type
ConvertExpression(rhs_ty, var_ty) ==
    \/ rhs_ty = var_ty
    \/ rhs_ty = "INT" /\ var_ty = "FLOAT"
    \/ rhs_ty = "ERROR"
    \/ var_ty = "ERROR"

\* ascribe_assign, on the local of the assigned name and the typed
\* right-hand side: the diagnostics after it and the typed expression
AscribeAssign(diags, source, var_obj, rhs, seg) ==
    IF IsNamed(var_obj.type_ref)
    THEN [diags |-> Append(diags, Diag("TypeMismatch", source, seg, "named")),
          expr |-> rhs]
    ELSE LET converted == ConvertExpression(rhs.ty, var_obj.type_ref)
             mismatch == IF converted THEN diags
                         ELSE Append(diags, Diag("TypeMismatch", source, seg, "assign"))
         IN  [diags |-> IF ~var_obj.can_reassign
                        THEN Append(mismatch, Diag("CannotReassign", source, seg, ""))
                        ELSE mismatch,
              expr |-> [kind |-> "Assign", ty |-> "UNIT"]]

\* ascribe_types on an assignment of the root script
WalkAssign(local, rhs_ty) ==
    /\ Len(assigns) < MaxAssigns
    /\ local \in 0..Len(ctx) - 1
    /\ LET rhs == [kind |-> "Literal", ty |-> rhs_ty]
           out == AscribeAssign(reported, 0, ctx[local + 1], rhs, Len(assigns) + 1)
       IN  /\ reported' = out.diags
           /\ assigns' = Append(assigns, [local |-> local, rhs |-> rhs, expr |-> out.expr])
    /\ UNCHANGED <<program, ascribed, hir, ctx, declared>>
    /\ UNCHANGED but_tvars

\* the locals of a source: variables, values and function declarations
Locals ==
    {TypedVariable(ty, can_reassign) : ty \in {"INT", "FLOAT", "STRING"},
                                       can_reassign \in BOOLEAN}
        \cup {TypedVariable("FUNCTION", FALSE)}

NextAssign == \E local \in 0..1, rhs_ty \in {"INT", "FLOAT", "STRING"} : WalkAssign(local, rhs_ty)

InitAssign ==
    /\ AnalyzerInit
    /\ link_engine = <<>>
    /\ link_relations = <<>>
    /\ captures = <<>>
    /\ EmitterIdle
    /\ PoolIdle
    /\ PipelineIdle
    /\ ModulesIdle
    /\ MappingsIdle
    /\ RunsIdle
    /\ FunctionsIdle
    /\ ReturnsIdle
    /\ LayoutIdle
    /\ program = <<>>
    /\ ascribed = <<>>
    /\ reported = <<>>
    /\ hir = <<>>
    /\ ctx \in [1..2 -> Locals]
    /\ assigns = <<>>
    /\ declared = <<>>

SpecAssign == InitAssign /\ [][NextAssign]_vars

\* the diagnostics of the n-th assignment
DiagnosticsOf(n) == {m \in 1..Len(reported) : reported[m].seg = n}

\* C20: every assignment is typed Unit, with or without a diagnostic
AssignmentsAreUnit == \A n \in 1..Len(assigns) : assigns[n].expr.ty = "UNIT"

\* the assignments to a variable or a value are typed Unit and become an
\* Assign expression, with or without a diagnostic
AssignmentsToVariablesAreUnit ==
    \A n \in 1..Len(assigns) :
        ~IsNamed(ctx[assigns[n].local + 1].type_ref) =>
            assigns[n].expr = [kind |-> "Assign", ty |-> "UNIT"]

-----------------------------------------------------------------------------
(* The ascription of the variable declarations and of the references *)

\* no type annotation
NoAnnotation == "None"

\* check_type_annotation: the diagnostics after it and the initializer,
\* converted to the annotated type when it fits
CheckTypeAnnotation(diags, source, annotation, initializer, seg) ==
    IF ConvertExpression(initializer.ty, annotation)
    THEN [diags |-> diags,
          expr |-> IF initializer.ty = annotation THEN initializer
                   ELSE [kind |-> "Convert", ty |-> annotation]]
    ELSE [diags |-> Append(diags, Diag("TypeMismatch", source, seg, annotation)),
          expr |-> initializer]

\* ascribe_var_declaration: the local is pushed with the type of the
\* initializer, then the initializer is checked against the annotation
AscribeVarDeclaration(kind, annotation, init_ty) ==
    /\ Len(declared) < MaxLocals
    /\ LET initializer == [kind |-> "Literal", ty |-> init_ty]
           id == Len(ctx)
           checked == IF annotation # NoAnnotation
                      THEN CheckTypeAnnotation(reported, 0, annotation, initializer, id)
                      ELSE [diags |-> reported, expr |-> initializer]
       IN  /\ ctx' = Append(ctx, TypedVariable(initializer.ty, kind # "Val"))
           /\ reported' = checked.diags
           /\ declared' = Append(declared,
                                 [identifier |-> id, annotation |-> annotation,
                                  initializer |-> initializer, value |-> checked.expr,
                                  ty |-> "UNIT"])
    /\ UNCHANGED <<program, ascribed, hir, assigns>>
    /\ UNCHANGED but_tvars

\* ascribe_var_reference, on a local of the source
AscribeVarReference(local) ==
    /\ Len(hir) < MaxAssigns
    /\ local \in 0..Len(ctx) - 1
    /\ hir' = Append(hir, [kind |-> "Reference", ty |-> ctx[local + 1].type_ref,
                           source |-> 0, seg |-> local])
    /\ UNCHANGED <<program, ascribed, reported, ctx, assigns, declared>>
    /\ UNCHANGED but_tvars

NextDeclare ==
    \/ \E kind \in {"Val", "Var"}, annotation \in {NoAnnotation, "INT", "FLOAT"},
          init_ty \in {"INT", "FLOAT"} : AscribeVarDeclaration(kind, annotation, init_ty)
    \/ \E local \in 0..MaxLocals : AscribeVarReference(local)

SpecDeclare == Init /\ [][NextDeclare]_vars

\* the declaration of a local
DeclarationOf(local) == declared[local + 1]

\* the declaration has an annotation its initializer had to be widened to
Widened(decl) ==
    /\ decl.annotation # NoAnnotation
    /\ decl.initializer.ty # decl.annotation
    /\ decl.value.ty = decl.annotation

\* C21: a reference to a local declared with an annotation to which the
\* initializer was widened has the annotated type
ReferencesHaveTheAnnotatedType ==
    \A n \in 1..Len(hir) :
        Widened(DeclarationOf(hir[n].seg)) =>
            hir[n].ty = DeclarationOf(hir[n].seg).annotation

\* the references to the locals that needed no widening have the type of
\* the declaration
ReferencesHaveTheInitializerType ==
    \A n \in 1..Len(hir) : hir[n].ty = DeclarationOf(hir[n].seg).initializer.ty

-----------------------------------------------------------------------------
(* The ascription of the operations on an expression of type Error *)

\* the methods of the types of the lang reef: their parameters and their
\* return type.  Error has no method.
MethodsOf(ty, name) ==
    CASE ty = "INT" /\ name \in {"plus", "mod"} -> {[parameters |-> <<"INT">>, ret |-> "INT"]}
      [] ty = "INT" /\ name = "neg" -> {[parameters |-> <<>>, ret |-> "INT"]}
      [] ty = "STRING" /\ name = "plus" -> {[parameters |-> <<"STRING">>, ret |-> "STRING"]}
      [] ty = "STRING" /\ name = "len" -> {[parameters |-> <<>>, ret |-> "INT"]}
      [] ty = "BOOL" /\ name = "not" -> {[parameters |-> <<>>, ret |-> "BOOL"]}
      [] OTHER -> {}

\* find_operand_implementation: the methods of one parameter whose type is
\* the type of the right operand
FindOperandImplementation(methods, right_ty) ==
    {m \in methods : m.parameters = <<right_ty>>}

\* the expression the operations are applied to
Operand == hir[Len(hir)]

\* an operation is typed: its expression and the diagnostics after it
Typed(kind, ty, diags) ==
    /\ Len(hir) < MaxOps
    /\ hir' = Append(hir, [kind |-> kind, ty |-> ty, source |-> 0, seg |-> Len(hir) + 1])
    /\ reported' = diags
    /\ UNCHANGED <<program, ascribed, ctx, assigns, declared>>
    /\ UNCHANGED but_tvars

\* ascribe_literal
AscribeLiteral(ty) ==
    /\ hir = <<>>
    /\ Typed("Literal", ty, reported)

\* ascribe_binary, the operand on one side and a literal on the other
AscribeBinary(name, operand_is_left, literal_ty) ==
    /\ hir # <<>>
    /\ LET left_ty == IF operand_is_left THEN Operand.ty ELSE literal_ty
           right_ty == IF operand_is_left THEN literal_ty ELSE Operand.ty
           method == FindOperandImplementation(MethodsOf(left_ty, name), right_ty)
       IN  IF method # {}
           THEN Typed("MethodCall", (CHOOSE m \in method : TRUE).ret, reported)
           ELSE Typed("MethodCall", "ERROR",
                      Append(reported, Diag("UnknownMethod", 0, Len(hir) + 1, name)))

\* ascribe_unary and ascribe_not
AscribeUnary(op) ==
    /\ hir # <<>>
    /\ IF Operand.ty = "ERROR" THEN Typed(Operand.kind, Operand.ty, reported)
       ELSE IF op = "Not"
       THEN IF ConvertExpression(Operand.ty, "BOOL")
            THEN Typed("MethodCall", "BOOL", reported)
            ELSE Typed(Operand.kind, Operand.ty,
                       Append(reported, Diag("TypeMismatch", 0, Len(hir) + 1, "not")))
       ELSE IF MethodsOf(Operand.ty, "neg") # {}
            THEN Typed("MethodCall", (CHOOSE m \in MethodsOf(Operand.ty, "neg") : TRUE).ret,
                       reported)
            ELSE Typed(Operand.kind, Operand.ty,
                       Append(reported, Diag("UnknownMethod", 0, Len(hir) + 1, "neg")))

\* ascribe_method_call and type_method, without arguments
AscribeMethodCall(name) ==
    /\ hir # <<>>
    /\ IF Operand.ty = "ERROR" THEN Typed("MethodCall", "ERROR", reported)
       ELSE IF MethodsOf(Operand.ty, name) = {}
       THEN Typed("MethodCall", "ERROR",
                  Append(reported, Diag("UnknownMethod", 0, Len(hir) + 1, name)))
       ELSE Typed("MethodCall", (CHOOSE m \in MethodsOf(Operand.ty, name) : TRUE).ret,
                  reported)

\* ascribe_casted
AscribeCasted(ty) ==
    /\ hir # <<>>
    /\ Typed("Convert", ty,
             IF Operand.ty # "ERROR" /\ ~ConvertExpression(Operand.ty, ty)
             THEN Append(reported, Diag("IncompatibleCast", 0, Len(hir) + 1, ty))
             ELSE reported)

\* ascribe_if outside of a local type, the operand as its condition
AscribeIf ==
    /\ hir # <<>>
    /\ Typed("Conditional", "UNIT",
             IF ConvertExpression(Operand.ty, "BOOL") THEN reported
             ELSE Append(reported, Diag("TypeMismatch", 0, Len(hir) + 1, "condition")))

\* ascribe_assign of the operand to a variable of type Int
AscribeAssignOperand ==
    /\ hir # <<>>
    /\ LET out == AscribeAssign(reported, 0, TypedVariable("INT", TRUE), Operand,
                                Len(hir) + 1)
       IN  Typed(out.expr.kind, out.expr.ty, out.diags)

NextOperations ==
    \/ \E ty \in {"INT", "STRING", "BOOL"} : AscribeLiteral(ty)
    \/ \E name \in {"plus", "mod"}, operand_is_left \in BOOLEAN, literal_ty \in {"INT", "STRING"} :
          AscribeBinary(name, operand_is_left, literal_ty)
    \/ \E op \in {"Not", "Negate"} : AscribeUnary(op)
    \/ \E name \in {"len", "foo"} : AscribeMethodCall(name)
    \/ \E ty \in {"INT", "STRING"} : AscribeCasted(ty)
    \/ AscribeIf
    \/ AscribeAssignOperand

SpecOperations == Init /\ [][NextOperations]_vars

\* an operation is applied to an operand of type Error
OnError == hir # <<>> /\ hir' # hir /\ Operand.ty = "ERROR"

\* C22: an operation applied to an expression of type Error emits no
\* diagnostic
ErrorCutsCascades == [][OnError => reported' = reported]_vars

\* but for the binary operators, an operation applied to an expression of
\* type Error emits no diagnostic
ErrorCutsCascadesButBinary ==
    [][(OnError /\ reported' # reported) =>
          reported'[Len(reported')].id = "UnknownMethod" /\ hir'[Len(hir')].ty = "ERROR"]_vars

-----------------------------------------------------------------------------
(* The inference of the return type of a function *)

\* TypeRef::is_something
IsSomething(ty) == ty # "NOTHING"

\* convert_description: a value of type ty can be given where `expected`
\* is awaited; Nothing is a subtype of every type
ConvertDescription(expected, ty) == ty = "NOTHING" \/ ConvertExpression(ty, expected)

\* convert_many: the types unify
ConvertMany(types) ==
    \E n \in 1..Len(types) : \A m \in 1..Len(types) : ConvertDescription(types[n], types[m])

\* the return type a function declaration awaits: the annotated one or Unit
ExpectedReturnType(f) == IF f.return_type = "None" THEN "UNIT" ELSE f.return_type

\* a variant of infer_return that treats every body as an expression
HasNoBlock(f) == FALSE

\* matches!(body.as_ref(), Expr::Block(_))
HasBlock(f) == f.body = "Block"

\* infer_return: the returns with the synthetic return of the last
\* expression of the body
RecordedReturns(f, rets) ==
    IF /\ f.body # "None"
       /\ (rets = <<>> \/ rets[Len(rets)].segment # f.last.segment)
       /\ IsSomething(f.last.ty)
       /\ f.last.ty # "ERROR"
    THEN Append(rets, [ty |-> f.last.ty, segment |-> f.last.segment])
    ELSE rets

\* infer_return: the diagnostics it pushes and the type it returns
InferReturn(f, expected_return_type, rets) ==
    LET Mistyped(ret) == ~ConvertDescription(expected_return_type, ret.ty)
        typed_return_locations == SelectSeq(rets, Mistyped)
        types == [n \in 1..Len(rets) |-> rets[n].ty]
        Emit(id, message) ==
            [diags |-> <<[id |-> id, message |-> message,
                          observations |-> typed_return_locations]>>,
             ty |-> "ERROR"]
    IN  IF typed_return_locations = <<>>
        THEN [diags |-> <<>>, ty |-> expected_return_type]
        ELSE IF f.return_type # "None" THEN Emit("TypeMismatch", "Type mismatch")
        ELSE IF f.body = "None"
        THEN Emit("CannotInfer", "Function declaration needs explicit return type")
        ELSE IF HasBlock(f)
        THEN Emit("CannotInfer", "Return type is not inferred for block functions")
        ELSE IF ConvertMany(types)
        THEN Emit("CannotInfer", "Return type inference is not supported yet")
        ELSE Emit("CannotInfer", "Failed to infer return type")

\* apply_types_to_source on a function: the returns of the typed body are
\* in the exploration, infer_return is called
InferReturnOfFunction ==
    /\ inferred = NotInferred
    /\ func # NoFunction
    /\ returns' = RecordedReturns(func, returns)
    /\ inferred' = InferReturn(func, ExpectedReturnType(func), RecordedReturns(func, returns))
    /\ UNCHANGED func
    /\ UNCHANGED but_rvars

\* the types of the returned expressions
ReturnedTypes == {"INT", "STRING", "UNIT"}

\* the function declarations and the returns of their typed bodies: a
\* declaration without body has no return, a body ends with its last
\* `return` or with another expression
InitReturns ==
    /\ AnalyzerInit
    /\ link_engine = <<>>
    /\ link_relations = <<>>
    /\ captures = <<>>
    /\ EmitterIdle
    /\ PoolIdle
    /\ PipelineIdle
    /\ ModulesIdle
    /\ MappingsIdle
    /\ RunsIdle
    /\ FunctionsIdle
    /\ AscriptionIdle
    /\ LayoutIdle
    /\ inferred = NotInferred
    /\ \E n \in 0..MaxReturns :
         /\ returns \in [1..n -> {[ty |-> ty, segment |-> m] : ty \in ReturnedTypes, m \in 1..n}]
         /\ \A m \in 1..n : returns[m].segment = m
         /\ func \in [return_type : {"None", "INT", "STRING"},
                      body : {"None", "Block", "Expr"},
                      last : [ty : ReturnedTypes \cup {"NOTHING", "ERROR"},
                              segment : {n, n + 1}]]
         /\ func # NoFunction
         /\ func.body = "None" => (n = 0 /\ func.last = [ty |-> "UNIT", segment |-> 1])
         /\ func.last.segment = n => (n > 0 /\ func.last.ty = "NOTHING")

SpecReturns == InitReturns /\ [][InferReturnOfFunction]_vars

\* every recorded return, the synthetic one included, converts to the
\* awaited return type
ReturnsConvert ==
    \A n \in 1..Len(returns) : ConvertDescription(ExpectedReturnType(func), returns[n].ty)

\* the types of the recorded returns unify
ReturnsUnify ==
    \E n \in 1..Len(returns) : \A m \in 1..Len(returns) :
        ConvertDescription(returns[n].ty, returns[m].ty)

\* C23: infer_return emits at most one diagnostic and returns Error
\* exactly when it emitted one; it emits nothing and returns the awaited
\* type when every recorded return converts to it, else TypeMismatch with
\* an annotation, and without annotation CannotInfer with the message of
\* the shape of the body
InferReturnDiagnosesOnce ==
    inferred # NotInferred =>
        /\ Len(inferred.diags) <= 1
        /\ inferred.ty = "ERROR" <=> Len(inferred.diags) = 1
        /\ ReturnsConvert => (inferred.diags = <<>> /\ inferred.ty = ExpectedReturnType(func))
        /\ ~ReturnsConvert =>
             /\ Len(inferred.diags) = 1
             /\ func.return_type # "None" => inferred.diags[1].id = "TypeMismatch"
             /\ func.return_type = "None" =>
                  /\ inferred.diags[1].id = "CannotInfer"
                  /\ inferred.diags[1].message =
                       IF func.body = "Block"
                       THEN "Return type is not inferred for block functions"
                       ELSE IF ReturnsUnify
                       THEN "Return type inference is not supported yet"
                       ELSE "Failed to infer return type"

\* a block function without annotation whose last expression is returned
\* with its `return` of another type
BlockFunctionNotInferred ==
    /\ inferred # NotInferred
    /\ func.body = "Block"
    /\ func.return_type = "None"
    /\ Len(returns) = MaxReturns + 1
    /\ inferred.diags # <<>>
    /\ Len(inferred.diags[1].observations) >= 2

-----------------------------------------------------------------------------
(* The forward declaration of the functions *)

\* the functions of the module, declared in its root script
Functions == {"a", "b"}

\* the environment of the root script
RootScript == "root"

\* TypedEngine: the entry of an environment not typed yet
NoChunk == [kind |-> "None", return_type |-> "None"]

\* ascribe_function_declaration: the chunk declared forward, a Noop with
\* the annotated return type or Unit
ForwardDeclaration(f) ==
    [kind |-> "Noop", return_type |-> ExpectedReturnType(declarations[f])]

\* TypedEngine::insert_if_absent
InsertIfAbsent(typed, id, entry) ==
    IF typed[id] = NoChunk THEN [typed EXCEPT ![id] = entry] ELSE typed

\* ascribe_function_declaration on every declaration of the script
RECURSIVE AscribeFunctionDeclarations(_, _)
AscribeFunctionDeclarations(typed, fs) ==
    IF fs = {} THEN typed
    ELSE LET f == CHOOSE g \in fs : TRUE
         IN  AscribeFunctionDeclarations(InsertIfAbsent(typed, f, ForwardDeclaration(f)),
                                         fs \ {f})

\* type_call: the return type of the entry of the callee in the engine
TypeCall(typed, callee) == typed[callee].return_type

\* the type of the body of a function, a literal or a call
TypeOfBody(typed, body) ==
    IF body.kind = "FunctionCall" THEN TypeCall(typed, body.callee) ELSE body.ty

\* the calls of a body, with their type
CallsOfBody(typed, caller, body) ==
    IF body.kind = "FunctionCall"
    THEN {[caller |-> caller, callee |-> body.callee, ty |-> TypeCall(typed, body.callee),
           callee_typed |-> typed[body.callee].kind # "Noop"]}
    ELSE {}

\* apply_types_to_source on the root script: its declarations are declared
\* forward, its call is typed, its chunk is inserted
ApplyTypesToScript ==
    /\ to_type # <<>>
    /\ Head(to_type) = RootScript
    /\ LET typed == AscribeFunctionDeclarations(type_engine, Functions)
           body == declarations[RootScript].body
       IN  /\ type_engine' = [typed EXCEPT ![RootScript] =
                                [kind |-> "Script", return_type |-> TypeOfBody(typed, body)]]
           /\ typed_calls' = typed_calls \cup CallsOfBody(typed, RootScript, body)
    /\ to_type' = Tail(to_type)
    /\ UNCHANGED declarations
    /\ UNCHANGED but_fvars

\* apply_types_to_source on a function: its body is typed, its return type
\* is that of infer_return, its chunk replaces the one declared forward
ApplyTypesToFunction ==
    /\ to_type # <<>>
    /\ Head(to_type) \in Functions
    /\ LET f == Head(to_type)
           body == declarations[f].body
           fun == [return_type |-> declarations[f].return_type,
                   body |-> "Expr",
                   last |-> [ty |-> TypeOfBody(type_engine, body), segment |-> 1]]
           return_type == InferReturn(fun, ExpectedReturnType(fun),
                                      RecordedReturns(fun, <<>>)).ty
       IN  /\ type_engine' = [type_engine EXCEPT ![f] =
                                [kind |-> body.kind, return_type |-> return_type]]
           /\ typed_calls' = typed_calls \cup CallsOfBody(type_engine, f, body)
    /\ to_type' = Tail(to_type)
    /\ UNCHANGED declarations
    /\ UNCHANGED but_fvars

NextFunctions == ApplyTypesToScript \/ ApplyTypesToFunction

\* the bodies of the functions: a literal or a call of a function
Bodies ==
    [kind : {"Literal"}, ty : {"INT", "STRING"}, callee : {"None"}]
        \cup [kind : {"FunctionCall"}, ty : {"None"}, callee : Functions]

\* the orders of the topological sort: the script that declares the
\* functions, then the functions in one order or the other
Orders == {<<RootScript, "a", "b">>, <<RootScript, "b", "a">>}

\* a module of two functions and a script that calls one of them, before
\* apply_types
InitFunctions ==
    /\ AnalyzerInit
    /\ link_engine = <<>>
    /\ link_relations = <<>>
    /\ captures = <<>>
    /\ EmitterIdle
    /\ PoolIdle
    /\ PipelineIdle
    /\ ModulesIdle
    /\ MappingsIdle
    /\ RunsIdle
    /\ AscriptionIdle
    /\ LayoutIdle
    /\ ReturnsIdle
    /\ declarations \in [Functions \cup {RootScript} ->
                           [return_type : {"None", "INT", "STRING"}, body : Bodies]]
    /\ declarations[RootScript].return_type = "None"
    /\ declarations[RootScript].body.kind = "FunctionCall"
    /\ type_engine = [e \in Functions \cup {RootScript} |-> NoChunk]
    /\ to_type \in Orders
    /\ typed_calls = {}

SpecFunctions == InitFunctions /\ [][NextFunctions]_vars

\* the call of a function with a declared return type has that type
HasDeclaredReturnType(c) ==
    declarations[c.callee].return_type # "None" => c.ty = declarations[c.callee].return_type

\* apply_types has typed every chunk of the module
AppliedTypes == declarations # <<>> /\ to_type = <<>>

\* after apply_types no function has the Noop declared forward as chunk
NoForwardDeclarationRemains ==
    AppliedTypes => \A f \in Functions : type_engine[f].kind \notin {"Noop", "None"}

\* C24: the call of a function with a declared return type has that return
\* type, whether the chunk of the callee is typed before or after the chunk
\* of the caller, and after apply_types the engine holds for every function
\* its typed chunk, not the Noop declared forward
CallsHaveTheDeclaredReturnType ==
    /\ \A c \in typed_calls : HasDeclaredReturnType(c)
    /\ NoForwardDeclarationRemains

\* the calls typed before the chunk of their callee have the declared
\* return type
CallsBeforeTheCalleeHaveTheDeclaredReturnType ==
    \A c \in typed_calls : ~c.callee_typed => HasDeclaredReturnType(c)

\* a call typed after the chunk of its callee, whose body does not have
\* the declared return type: the call has the type Error
CallAfterMistypedCallee ==
    \E c \in typed_calls :
        /\ c.callee_typed
        /\ declarations[c.callee].return_type # "None"
        /\ c.ty = "ERROR"

-----------------------------------------------------------------------------
(* The passes run again on the same input *)

\* the result of a run that did not happen
NotRun == <<Diag("NotRun", NoId, NoSeg, <<>>)>>

\* the orders in which a map of n entries enumerates them
Enumerations(n) == {p \in [1..n -> 1..n] : \A i, j \in 1..n : i # j => p[i] # p[j]}

\* the engine whose environment `id` enumerates its definitions in order p
Enumerated(eng, id, p) ==
    SetEnv(eng, id, [Env(eng, id) EXCEPT
                        !.definitions = [i \in 1..Len(@) |-> @[p[i]]]])

\* check_symbols_identity in another run of collect_symbols on the same
\* modules: the definitions of a root are enumerated in the order of its map
CheckSymbolsIdentityAgain ==
    /\ phase = "collected"
    /\ again = NotRun
    /\ LET collected == SubSeq(diagnostics, 1,
                               Len(diagnostics) - Len(CheckSymbolsIdentity(engine, 0, <<>>)))
       IN \E id \in Roots(engine) :
            \E p \in Enumerations(Len(Env(engine, id).definitions)) :
                again' = CheckSymbolsIdentity(Enumerated(engine, id, p), 0, collected)
    /\ UNCHANGED capture_lists
    /\ UNCHANGED but_dvars

NextAgain == NextClash \/ CheckSymbolsIdentityAgain

SpecAgain == Init /\ [][NextAgain]_vars

\* the comparison of sort_by in resolve: by source, then by object_id
ComesBefore(a, b) ==
    a.source < b.source \/ (a.source = b.source /\ a.object_id <= b.object_id)

RECURSIVE SortBy(_)
\* slice::sort_by with the comparison of resolve, a stable sort
SortBy(s) ==
    IF s = <<>> THEN s
    ELSE LET sorted == SortBy(Front(s))
             x == Last(s)
             k == Cardinality({i \in 1..Len(sorted) : ComesBefore(sorted[i], x)})
         IN SubSeq(sorted, 1, k) \o <<x>> \o SubSeq(sorted, k + 1, Len(sorted))

\* the elements of a hash set in one of the orders it can enumerate them
EnumerationsOf(set) ==
    {s \in [1..Cardinality(set) -> set] : \A i, j \in DOMAIN s : i # j => s[i] # s[j]}

\* resolve_captures in one more run: each chunk copies the externals in the
\* order of the hash set and sorts them
ResolveCapturesAgain ==
    /\ captures # <<>>
    /\ Len(capture_lists) < MaxRuns
    /\ \E lists \in [1..Len(captures) -> UNION {EnumerationsOf(captures[c]) : c \in 1..Len(captures)}] :
        /\ \A c \in 1..Len(captures) : lists[c] \in EnumerationsOf(captures[c])
        /\ capture_lists' = Append(capture_lists, [c \in 1..Len(captures) |-> SortBy(lists[c])])
    /\ UNCHANGED again
    /\ UNCHANGED but_dvars

SpecCapturesAgain == InitCaptures /\ [][CompileCaptures \/ ResolveCapturesAgain]_vars

\* the capture lists of two runs of resolve_captures are the same
CaptureListsAreReproducible ==
    \A r, q \in 1..Len(capture_lists) : capture_lists[r] = capture_lists[q]

\* C25: two runs of the analysis over the same modules, with the same
\* answers of the importer, give the same diagnostics in the same order
DiagnosticsAreReproducible == again # NotRun => again = diagnostics

\* two runs give the same diagnostics up to their order and the node of the
\* symbol they are located at
DiagnosticsAreReproducibleUpToOrder ==
    again # NotRun =>
        {[id |-> again[k].id, env |-> again[k].env, aux |-> again[k].aux] : k \in DOMAIN again}
            = {[id |-> diagnostics[k].id, env |-> diagnostics[k].env,
                aux |-> diagnostics[k].aux] : k \in DOMAIN diagnostics}

-----------------------------------------------------------------------------
(* The compiler: the line-mapping attribute of a chunk *)

\* the number of positions a chunk records at most
MaxPositions == 3

\* the attribute of a chunk that has none yet
NotWritten == <<-1>>

\* SourceLineProvider::get_line, the lines starting from one
GetLine(provider, pos) == provider[pos + 1]

\* the loop of compile_line_mapping_attribute over the positions after the
\* first one, from the i-th on
RECURSIVE MappingsLoop(_, _, _, _)
MappingsLoop(rest, provider, i, acc) ==
    IF i > Len(rest) THEN acc
    ELSE LET pos == rest[i].pos
             instruction == rest[i].ip
         IN  IF instruction > acc.last_ip
             THEN LET line == GetLine(provider, acc.last_pos)
                  IN  MappingsLoop(rest, provider, i + 1,
                        [mappings |-> IF acc.last_line # line
                                      THEN Append(acc.mappings,
                                                  [line |-> line, instruction |-> acc.last_ip])
                                      ELSE acc.mappings,
                         last_line |-> line,
                         last_ip |-> instruction,
                         last_pos |-> pos])
             ELSE MappingsLoop(rest, provider, i + 1, [acc EXCEPT !.last_pos = pos])

\* compile_line_mapping_attribute: the mappings it collects
Mappings(all, provider) ==
    LET looped == MappingsLoop(Tail(all), provider, 1,
                               [mappings |-> <<>>, last_line |-> -1,
                                last_ip |-> all[1].ip, last_pos |-> all[1].pos])
    IN  IF looped.mappings = <<>>
        THEN <<[line |-> GetLine(provider, all[1].pos), instruction |-> 0]>>
        ELSE looped.mappings

\* the u32 words of the mappings, the instruction then the line of each
RECURSIVE EmitMappings(_)
EmitMappings(mappings) ==
    IF mappings = <<>> THEN <<>>
    ELSE <<mappings[1].instruction, mappings[1].line>> \o EmitMappings(Tail(mappings))

\* compile_line_mapping_attribute
CompileLineMappingAttribute ==
    /\ line_provider # <<>>
    /\ attribute = NotWritten
    /\ attribute' = IF positions = <<>> THEN <<0>>
                    ELSE LET mappings == Mappings(positions, line_provider)
                         IN  <<Len(mappings)>> \o EmitMappings(mappings)
    /\ UNCHANGED <<positions, line_provider>>
    /\ UNCHANGED but_mvars

\* the line providers of a content of MaxPositions bytes: the line does not
\* decrease with the position, a line ends at most once per byte
LineProviders ==
    {provider \in [1..MaxPositions -> 1..MaxPositions] :
        /\ provider[1] = 1
        /\ \A p \in 1..MaxPositions - 1 : provider[p + 1] \in {provider[p], provider[p] + 1}}

\* the positions of a chunk: the instruction pointer does not decrease
\* along the emission
InitMappings ==
    /\ AnalyzerInit
    /\ link_engine = <<>>
    /\ link_relations = <<>>
    /\ captures = <<>>
    /\ EmitterIdle
    /\ PoolIdle
    /\ PipelineIdle
    /\ ModulesIdle
    /\ AscriptionIdle
    /\ LayoutIdle
    /\ ReturnsIdle
    /\ FunctionsIdle
    /\ RunsIdle
    /\ line_provider \in LineProviders
    /\ \E n \in 0..MaxPositions :
         /\ positions \in [1..n -> [pos : 0..MaxPositions - 1, ip : 0..MaxPositions - 1]]
         /\ \A i \in 1..n - 1 : positions[i].ip <= positions[i + 1].ip
    /\ attribute = NotWritten

SpecMappings == InitMappings /\ [][CompileLineMappingAttribute]_vars

\* the entries written after the count
EntriesWritten ==
    [k \in 1..(Len(attribute) - 1) \div 2 |->
        [instruction |-> attribute[2 * k], line |-> attribute[2 * k + 1]]]

\* the offsets written increase strictly, no two consecutive entries have
\* the same line, the count written is the number of entries that follow
MappingsAreCompressed ==
    attribute # NotWritten =>
        /\ Len(attribute) = 1 + 2 * attribute[1]
        /\ \A k \in 1..Len(EntriesWritten) - 1 :
              /\ EntriesWritten[k].instruction < EntriesWritten[k + 1].instruction
              /\ EntriesWritten[k].line # EntriesWritten[k + 1].line

\* the line of the last range of instructions of the chunk: that of the
\* last position recorded
LastLine == GetLine(line_provider, positions[Len(positions)].pos)

\* C26: the offsets of the line-mapping attribute increase strictly, no two
\* consecutive entries have the same line, the count is the number of
\* entries, and an entry has the line of the last range of instructions
MappingsCoverTheChunk ==
    /\ MappingsAreCompressed
    /\ (attribute # NotWritten /\ positions # <<>>) =>
          \E k \in 1..Len(EntriesWritten) : EntriesWritten[k].line = LastLine

-----------------------------------------------------------------------------
(* The frames of tree_walk *)

\* the traversal of modules whose expressions open scopes and functions,
\* with a `use` after an expression, an invalid path and references
NextFrames ==
    \/ \E answers \in Found : ImportNext(answers)
    \/ FinishModule
    \/ BeginBlock
    \/ EndBlock
    \/ BeginMatchArm("a")
    \/ BeginFunction("b", NoParam, NoType)
    \/ BeginLambda(NoParam)
    \/ EndFunction
    \/ WalkUse(AllInImport(<<"b">>))
    \/ WalkProgrammaticCall(<<"a", ReefItem>>)
    \/ WalkVarReference("VarReference", "a")

SpecFrames == Init /\ [][NextFrames]_vars

\* the functions and lambdas among the n first groups being traversed
FunctionsOpen(n) == Cardinality({i \in 1..n : open[i] = "Function"})

\* the scopes being traversed of the environment at position j of the stack
ScopesOpen(j) ==
    Cardinality({i \in 1..Len(open) : open[i] # "Function" /\ FunctionsOpen(i) = j - 1})

\* C27: the stack of the collector and the scope depth of every
\* environment are those of the groups being traversed: tree_walk leaves them
\* as they were on entry, each begin_scope has its end_scope and each push
\* its pop, also where a diagnostic is pushed
FramesAreRestored ==
    /\ phase = "walk" =>
          /\ Len(stack) = 1 + FunctionsOpen(Len(open))
          /\ \A j \in 1..Len(stack) : Env(engine, stack[j]).depth = ScopesOpen(j)
          /\ \A id \in 0..Len(engine) - 1 :
                (\A j \in 1..Len(stack) : stack[j] # id) => Env(engine, id).depth = 0
    /\ phase = "idle" =>
          /\ stack = <<>>
          /\ \A id \in 0..Len(engine) - 1 : Env(engine, id).depth = 0

\* a module traversed to its end, with a function in it and a diagnostic of
\* a rejected `use` or of an invalid path
ModuleWalkedWithDiagnostics ==
    /\ phase = "idle"
    /\ \E id \in 0..Len(engine) - 1 : Env(engine, id).parent # NoId
    /\ \E k \in DOMAIN diagnostics : diagnostics[k].id \in {"UseBetweenExprs", "InvalidSymbolPath"}

-----------------------------------------------------------------------------
(* The collection of a finite set of modules *)

\* the names of the modules of the importer
ModuleNames == {<<"a">>, <<"b">>}

\* the names a `use` can import: the modules, and a symbol of a module
ImportedNames == ModuleNames \cup {<<"a", "b">>}

\* the lists of at most two `use`s a module starts with
UsesOfModule ==
    {<<>>} \cup {<<n>> : n \in ImportedNames} \cup {<<n, m>> : n, m \in ImportedNames}

\* ASTImporter::import for a fixed set of modules
ImportOf(name) ==
    IF name \notin ModuleNames THEN "NotFound"
    ELSE modules[name].answer

\* the answers of the importer for the prefixes of a name
AnswersOf(name) == [n \in 1..Len(name) |-> ImportOf(SubSeq(name, 1, n))]

\* the `use`s of the module being traversed
UsesOfCurrent == modules[Env(engine, stack[1]).fqn].uses

\* the number of `use`s of the module being traversed that were walked
UsesWalked == Cardinality({k \in DOMAIN uses : uses[k].mod = stack[1]})

\* one iteration of the loop of collect, with the importer of the modules
CollectNext ==
    /\ to_visit # <<>>
    /\ ImportNext(AnswersOf(Last(to_visit)))

\* tree_walk on the next `use` of the module
CollectUse ==
    /\ phase = "walk"
    /\ UsesWalked < Len(UsesOfCurrent)
    /\ WalkUse(SymbolImport(UsesOfCurrent[UsesWalked + 1], ""))

\* the end of the traversal of the module
CollectModule ==
    /\ phase = "walk"
    /\ UsesWalked = Len(UsesOfCurrent)
    /\ FinishModule

NextCollect == CollectNext \/ CollectUse \/ CollectModule \/ FinishCollect

\* the modules a and b of the importer, each with its `use`s or not given,
\* and the entry point a to visit
InitCollect ==
    /\ AnalyzerInit
    /\ link_engine = <<>>
    /\ link_relations = <<>>
    /\ captures = <<>>
    /\ EmitterIdle
    /\ PoolIdle
    /\ PipelineIdle
    /\ AscriptionIdle
    /\ LayoutIdle
    /\ ReturnsIdle
    /\ FunctionsIdle
    /\ RunsIdle
    /\ MappingsIdle
    /\ modules \in [ModuleNames ->
                      [answer : {"Success"}, uses : UsesOfModule]
                          \cup [answer : {"NotFound", "Failure"}, uses : {<<>>}]]

\* collect is a sequential loop: it goes on as long as it has a step to take
SpecCollect == InitCollect /\ [][NextCollect]_vars /\ WF_vars(NextCollect)

\* C28: collect terminates, also when the modules import each other or
\* themselves: the worklist becomes empty and collect_symbols returns
CollectTerminates == <>(phase = "collected" /\ to_visit = <<>>)

\* the collection of two modules that import each other, one of which
\* imports itself, has returned
CyclicImportsCollected ==
    /\ phase = "collected"
    /\ Len(engine) = 2
    /\ \E k \in DOMAIN uses : uses[k].key.loc.name = Env(engine, uses[k].mod).fqn
    /\ \E k \in DOMAIN uses : uses[k].key.loc.name # Env(engine, uses[k].mod).fqn
    /\ \A id \in 0..1 : \E k \in DOMAIN uses : uses[k].mod = id

-----------------------------------------------------------------------------
(* The names asked to the importer *)

\* C29: during a collection the importer is asked at most once for a name,
\* whatever it answered, and no two root environments attached by collect
\* have the same fully-qualified name
EachNameIsImportedOnce ==
    /\ \A i, j \in DOMAIN queries : queries[i].name = queries[j].name => i = j
    /\ \A id, other \in Roots(engine) :
          Env(engine, id).fqn = Env(engine, other).fqn => id = other

\* two imports, of b::a and of b::b, fell back to their parent b, a module
\* with a root environment
TwoImportsFellBackToOneParent ==
    /\ \E i \in DOMAIN queries : queries[i] = [name |-> <<"b", "a">>, result |-> "NotFound"]
    /\ \E i \in DOMAIN queries : queries[i] = [name |-> <<"b", "b">>, result |-> "NotFound"]
    /\ \E i \in DOMAIN queries : queries[i] = [name |-> <<"b">>, result |-> "Success"]
    /\ \E id \in Roots(engine) : Env(engine, id).fqn = <<"b">>
    /\ phase = "idle"
    /\ to_visit = <<>>

-----------------------------------------------------------------------------
(* The compiler: the emission of a for loop *)

\* Opcode::PushInt
PushInt == 0

\* Opcode::GetQWord
GetQWord == 6

\* Opcode::SetQWord
SetQWord == 7

\* Opcode::GetRef
GetRef == 8

\* Opcode::SetRef
SetRef == 9

\* Opcode::Invoke
Invoke == 11

\* Opcode::IntAdd
IntAdd == 25

\* Opcode::IntLessThan
IntLessThan == 36

\* Instructions::emit_push_int of a constant below 256: i64::to_be_bytes
EmitPushInt(bytes, constant) ==
    EmitByte(bytes, PushInt) \o <<0, 0, 0, 0, 0, 0, 0, constant>>

\* Instructions::emit_set_local, the opcode being the one of the local's size
EmitSetLocal(bytes, opcode, at) == EmitU32(EmitByte(bytes, opcode), at)

\* Instructions::emit_get_local, the opcode being the one of the local's size
EmitGetLocal(bytes, opcode, index) == EmitU32(EmitByte(bytes, opcode), index)

\* Instructions::emit_invoke
EmitInvoke(bytes, signature_idx) == EmitU32(EmitByte(bytes, Invoke), signature_idx)

\* EmissionState::in_loop of emit_for_loop: the state of a body whose loop
\* does not know yet where its increment starts
InForLoop ==
    [enclosing_loop_start_placeholders |-> <<>>, enclosing_loop_end_placeholders |-> <<>>,
     use_values |-> FALSE]

\* the form of the for loop a frame belongs to
FormOf(frame) == loops[frame.id].form

\* emit_for_iterable over a vector, from the increment of the index to the
\* instruction before the jump back
RangeIncrement(bytes, index_id) ==
    EmitSetLocal(
        EmitByte(EmitPushInt(EmitGetLocal(bytes, GetQWord, index_id), 1), IntAdd),
        SetQWord, index_id)

\* emit_for_loop, up to the condition of a conditional loop and up to the body
\* of a loop over a vector; the initializer and the iterable are literals, and
\* the locals of the loop take the next three indexes of the layout
BeginFor(form) ==
    /\ Emitting
    /\ emitted' = emitted + 1
    /\ LET outer == Top.state
           loop_state == Len(estates) + 1
           last_used == estates[outer].use_values
           iterator_id == 3 * Len(loops)
           index_id == 3 * Len(loops) + 1
           receiver == 3 * Len(loops) + 2
           initializer == IF last_used
                          THEN EmitByte(EmitByte(bytecode, PushByte), 1)
                          ELSE bytecode
           iterable == EmitByte(EmitByte(bytecode, PushByte), 1)
           b1 == EmitSetLocal(EmitPushInt(EmitSetLocal(iterable, SetRef, iterator_id), 0),
                              SetQWord, index_id)
           b2 == EmitByte(
                    EmitInvoke(
                        EmitGetLocal(EmitGetLocal(b1, GetQWord, index_id),
                                     GetRef, iterator_id), 1),
                    IntLessThan)
           b3 == EmitJump(b2, IfNotJump)
           b4 == EmitSetLocal(
                    EmitInvoke(
                        EmitGetLocal(EmitGetLocal(b3, GetRef, iterator_id),
                                     GetQWord, index_id), 0),
                    SetQWord, receiver)
           before_start == IF form = "Conditional" THEN initializer ELSE b1
           loop_start == CurrentIp(before_start, ip_offset)
           jump_to_end == Len(b2) + 1
       IN /\ bytecode' = IF form = "Conditional" THEN initializer ELSE b4
          /\ estates' = Append(
                IF form = "Conditional"
                THEN [estates EXCEPT ![outer].use_values = TRUE]
                ELSE estates,
                IF form = "Conditional" THEN InForLoop
                ELSE [InForLoop EXCEPT !.enclosing_loop_end_placeholders = <<jump_to_end>>])
          /\ frames' = Append(frames,
                Frame(IF form = "Conditional" THEN "ForCondition" ELSE "LoopBody",
                      IF form = "Conditional" THEN outer ELSE loop_state,
                      outer, Len(loops) + 1, last_used, NoId, loop_start))
          /\ loops' = Append(loops,
                [base |-> ip_offset, start |-> Len(before_start), back_jump |-> NoId,
                 created |-> IF form = "Conditional" THEN <<>> ELSE <<jump_to_end>>,
                 closed |-> FALSE,
                 before |-> estates[outer].enclosing_loop_end_placeholders,
                 after |-> <<>>, form |-> form, increment |-> NoId, starts |-> <<>>])
    /\ UNCHANGED <<ip_offset, header, jumps, patches, conditionals>>
    /\ UNCHANGED but_evars

\* emit_for_loop of a conditional loop, from the end of its condition to its
\* body
EndForCondition ==
    /\ frames # <<>>
    /\ Top.kind = "ForCondition"
    /\ LET jump_to_end == Len(bytecode) + 1
           loop_state == Len(estates)
       IN /\ bytecode' = EmitJump(bytecode, IfNotJump)
          /\ estates' = [estates EXCEPT
                ![Top.outer].use_values = Top.saved,
                ![loop_state].enclosing_loop_end_placeholders = Append(@, jump_to_end)]
          /\ frames' = [frames EXCEPT ![Len(frames)].kind = "LoopBody",
                                      ![Len(frames)].state = loop_state]
          /\ loops' = [loops EXCEPT ![Top.id].created = Append(@, jump_to_end)]
    /\ UNCHANGED <<ip_offset, header, jumps, patches, conditionals, emitted>>
    /\ UNCHANGED but_evars

\* a variant of emit_for_loop that patches no jump to the increment
NoStarts(frame) == <<>>

\* the placeholders emit_for_loop patches before the increment: those its
\* loop_state gathered in the body
StartsOfLoop(frame) == estates[frame.state].enclosing_loop_start_placeholders

\* emit_for_loop, once the body is emitted: the jumps to the increment are
\* patched, then a conditional loop emits its increment and a loop over a
\* vector increments its index, jumps back and patches the jumps to its end
EndForBody ==
    /\ frames # <<>>
    /\ Top.kind = "LoopBody"
    /\ LET starts == StartsOfLoop(Top)
           pending == estates[Top.state].enclosing_loop_end_placeholders
           index_id == 3 * (Top.id - 1) + 1
           b1 == PatchJumps(bytecode, ip_offset, starts, 1)
           b2 == RangeIncrement(b1, index_id)
           b3 == JumpBackTo(b2, Top.loop_start)
           patched == patches \o
                [i \in 1..Len(starts) |->
                    [pos |-> starts[i], value |-> CurrentIp(bytecode, ip_offset)]]
       IN IF FormOf(Top) = "Conditional"
          THEN /\ bytecode' = b1
               /\ patches' = patched
               /\ frames' = [frames EXCEPT ![Len(frames)].kind = "ForIncrement",
                                           ![Len(frames)].state = Top.outer]
               /\ loops' = [loops EXCEPT ![Top.id].increment = Len(bytecode)]
               /\ UNCHANGED estates
          ELSE /\ bytecode' = PatchJumps(b3, ip_offset, pending, 1)
               /\ patches' = patched \o
                    [i \in 1..Len(pending) |->
                        [pos |-> pending[i], value |-> CurrentIp(b3, ip_offset)]]
               /\ frames' = Front(frames)
               /\ loops' = [loops EXCEPT
                    ![Top.id].increment = Len(bytecode),
                    ![Top.id].back_jump = Len(b2),
                    ![Top.id].closed = TRUE,
                    ![Top.id].after = estates[Top.outer].enclosing_loop_end_placeholders]
               /\ estates' = Front(estates)
    /\ UNCHANGED <<ip_offset, header, jumps, conditionals, emitted>>
    /\ UNCHANGED but_evars

\* emit_for_loop of a conditional loop, once its increment is emitted
EndFor ==
    /\ frames # <<>>
    /\ Top.kind = "ForIncrement"
    /\ LET b1 == JumpBackTo(bytecode, Top.loop_start)
           pending == estates[Len(estates)].enclosing_loop_end_placeholders
       IN /\ bytecode' = PatchJumps(b1, ip_offset, pending, 1)
          /\ patches' = patches \o
                [i \in 1..Len(pending) |->
                    [pos |-> pending[i], value |-> CurrentIp(b1, ip_offset)]]
          /\ loops' = [loops EXCEPT
                ![Top.id].back_jump = Len(bytecode),
                ![Top.id].closed = TRUE,
                ![Top.id].after = estates[Top.outer].enclosing_loop_end_placeholders]
    /\ frames' = Front(frames)
    /\ estates' = Front(estates)
    /\ UNCHANGED <<ip_offset, header, jumps, conditionals, emitted>>
    /\ UNCHANGED but_evars

\* a `continue` in the body of a for loop: a jump whose target is not known
\* yet, left to the loop in the start placeholders of its state; the typing
\* only lets it through inside the body of a loop
EmitContinueInFor ==
    /\ Emitting
    /\ InnermostLoop(frames) # 0
    /\ emitted' = emitted + 1
    /\ bytecode' = EmitJump(bytecode, Jump)
    /\ estates' = [estates EXCEPT
            ![Top.state].enclosing_loop_start_placeholders = Append(@, Len(bytecode) + 1)]
    /\ jumps' = Append(jumps, [kind |-> "Continue", pos |-> Len(bytecode) + 1,
                               loop |-> InnermostLoop(frames),
                               conditions |-> ConditionsAbove(frames)])
    /\ loops' = [loops EXCEPT ![InnermostLoop(frames)].starts = Append(@, Len(bytecode) + 1)]
    /\ UNCHANGED <<ip_offset, header, frames, patches, conditionals>>
    /\ UNCHANGED but_evars

NextFor ==
    \/ \E return_bytes_count \in {0, 1} : BeginChunk(8, return_bytes_count)
    \/ EndChunk(8)
    \/ EmitLiteral
    \/ \E form \in {"Conditional", "Range"} : BeginFor(form)
    \/ EndForCondition
    \/ EndForBody
    \/ EndFor
    \/ EmitContinueInFor
    \/ EmitBreak

SpecFor == Init /\ [][NextFor]_vars

\* a conditional for loop has been emitted with a `continue` and a `break` in
\* its body
ConditionalForWithContinueAndBreak ==
    \E l \in DOMAIN loops :
        /\ loops[l].closed
        /\ loops[l].form = "Conditional"
        /\ \E j \in DOMAIN jumps : jumps[j].loop = l /\ jumps[j].kind = "Continue"
        /\ \E j \in DOMAIN jumps : jumps[j].loop = l /\ jumps[j].kind = "Break"

\* the instruction pointer a placeholder of the loop holds
TargetOf(pos) == ReadU32(bytecode, pos)

\* the for loops whose emission has returned
ForLoopsEmitted == {l \in DOMAIN loops : loops[l].closed}

\* the instruction pointer of the first instruction of the increment
IncrementIp(l) == loops[l].increment - loops[l].base

-----------------------------------------------------------------------------
(* The engine under collect and inject *)

NextEngine ==
    \/ \E answers \in Found : ImportNext(answers)
    \/ \E attached \in NoId..Len(engine) : Inject(<<"b">>, attached)
    \/ FinishModule
    \/ FinishCollect
    \/ Resolve
    \/ WalkLiteral
    \/ BeginFunction("b", NoParam, NoType)
    \/ BeginLambda(NoParam)
    \/ EndFunction

SpecEngine == Init /\ [][NextEngine]_vars

====
